---------------------------- MODULE Spec2Model ----------------------------
(***************************************************************************)
(* Model of the SAR processing pipelines of sar_processor:                 *)
(*   IntensityProcessor.generate_intensity_maps,                           *)
(*   CoherenceProcessor.generate_coherence_map,                            *)
(* together with the validation decorators that wrap them, the date        *)
(* extraction that names their outputs and the band-name search that       *)
(* selects the bands they write.                                           *)
(*                                                                         *)
(* Python strings are modelled as sequences of one-character strings, so   *)
(* that lower(), "in", endswith(), split() and slicing are computed and    *)
(* not assumed.  The SNAP engine (ProductIO, GPF) is external: each of its *)
(* calls either returns a fresh product handle or raises.                  *)
(***************************************************************************)
EXTENDS Integers, Sequences, FiniteSets, TLC

(***************************************************************************)
(* String literals                                                         *)
(***************************************************************************)
Beta0_VV == <<"B","e","t","a","0","_","V","V">>
Beta0_VH == <<"B","e","t","a","0","_","V","H">>
Beta0_HH == <<"B","e","t","a","0","_","H","H">>
Intensity_HH == <<"I","n","t","e","n","s","i","t","y","_","H","H">>
Intensity_VV == <<"I","n","t","e","n","s","i","t","y","_","V","V">>
Intensity_VH == <<"I","n","t","e","n","s","i","t","y","_","V","H">>
Sigma0_VV == <<"S","i","g","m","a","0","_","V","V">>
Beta0_VV_VH == <<"B","e","t","a","0","_","V","V","_","V","H">>
i_VV == <<"i","_","V","V">>
q_VV == <<"q","_","V","V">>
coh_VV == <<"c","o","h","_","V","V">>
Coh_VH == <<"C","o","h","_","V","H">>

PreEventZip == <<"S","1","A","_","I","W","_","S","L","C","_","_","1","S","D","V","_","2","0","2","4","0","7","2","0","T","0","0","4","0","5","2",".","z","i","p">>
PostEventZip == <<"S","1","A","_","I","W","_","S","L","C","_","_","1","S","D","V","_","2","0","2","4","0","8","0","1","T","0","0","4","0","5","2",".","z","i","p">>
NoDateZip == <<"s","c","e","n","e",".","z","i","p">>
AdjacentSliceZip == <<"S","1","A","_","I","W","_","S","L","C","_","_","1","S","D","V","_","2","0","2","4","0","7","2","0","T","0","0","4","1","1","7",".","z","i","p">>
OutputDir == <<"O","u","t","p","u","t">>
PolVV == <<"V","V">>

SufZip == <<".","z","i","p">>
SufTif == <<".","t","i","f">>
SufNc == <<".","n","c">>
VvTif == <<"_","v","v",".","t","i","f">>
VhTif == <<"_","v","h",".","t","i","f">>
CohTif == <<"_","c","o","h","e","r","e","n","c","e",".","t","i","f">>

UpperChars == <<"A","B","C","D","E","F","G","H","I","J","K","L","M","N","O","P","Q","R","S","T","U","V","W","X","Y","Z">>
LowerChars == <<"a","b","c","d","e","f","g","h","i","j","k","l","m","n","o","p","q","r","s","t","u","v","w","x","y","z">>
Digits == <<"0","1","2","3","4","5","6","7","8","9">>

\* Python None for a string-valued local (no band name and no date is empty)
None == << >>

(***************************************************************************)
(* Python string operations                                                *)
(***************************************************************************)
\* str.lower() on one character
LowerChar(c) ==
    IF \E i \in 1..Len(UpperChars) : UpperChars[i] = c
    THEN LowerChars[CHOOSE i \in 1..Len(UpperChars) : UpperChars[i] = c]
    ELSE c

\* str.lower()
Lower(s) == [i \in 1..Len(s) |-> LowerChar(s[i])]

\* sub in s
Contains(sub, s) ==
    \E i \in 1..(Len(s) - Len(sub) + 1) : SubSeq(s, i, i + Len(sub) - 1) = sub

\* s.startswith(pre)
StartsWith(s, pre) ==
    Len(s) >= Len(pre) /\ SubSeq(s, 1, Len(pre)) = pre

\* s.endswith(suf)
EndsWith(s, suf) ==
    Len(s) >= Len(suf) /\ SubSeq(s, Len(s) - Len(suf) + 1, Len(s)) = suf

\* s[:n]
Prefix(s, n) == SubSeq(s, 1, IF Len(s) < n THEN Len(s) ELSE n)

\* position of the first occurrence of character c in s, 0 when absent
FirstIndex(s, c) ==
    IF \E i \in 1..Len(s) : s[i] = c
    THEN CHOOSE i \in 1..Len(s) : s[i] = c /\ \A j \in 1..(i - 1) : s[j] # c
    ELSE 0

\* position of the last occurrence of character c in s, 0 when absent
LastIndex(s, c) ==
    IF \E i \in 1..Len(s) : s[i] = c
    THEN CHOOSE i \in 1..Len(s) : s[i] = c /\ \A j \in (i + 1)..Len(s) : s[j] # c
    ELSE 0

\* s.split(c): the tokens between the occurrences of c, empty ones included
RECURSIVE Split(_, _)
Split(s, c) ==
    IF FirstIndex(s, c) = 0
    THEN << s >>
    ELSE << SubSeq(s, 1, FirstIndex(s, c) - 1) >>
         \o Split(SubSeq(s, FirstIndex(s, c) + 1, Len(s)), c)

\* a basename that is the whole path
BasenameWholePath(p) == p

\* os.path.basename(p): what follows the last "/"
Basename(p) == SubSeq(p, LastIndex(p, "/") + 1, Len(p))

\* os.path.join(a, b) for a relative b
PathJoin(a, b) ==
    IF a = << >> THEN b
    ELSE IF a[Len(a)] = "/" THEN a \o b
    ELSE a \o << "/" >> \o b


(***************************************************************************)
(* datetime.strptime(date_str, '%Y%m%d').strftime('%Y-%m-%d')              *)
(* The format compiles to the regular expression                           *)
(*   (\d\d\d\d)(1[0-2]|0[1-9]|[1-9])(3[01]|[12]\d|0[1-9]|[1-9]| [1-9])     *)
(* which must match at the start and consume the whole string; the three   *)
(* numbers must then form a date of the calendar.                          *)
(***************************************************************************)
IsDigit(c) == \E i \in 1..Len(Digits) : Digits[i] = c

DigitVal(c) == (CHOOSE i \in 1..Len(Digits) : Digits[i] = c) - 1

\* the alternatives of %m that match s at position p, in the order the
\* regular expression tries them; each gives the length consumed and the value
MonthAlts(s, p) ==
    (IF p + 1 <= Len(s)
        /\ ( (s[p] = "1" /\ s[p + 1] \in {"0", "1", "2"})
             \/ (s[p] = "0" /\ IsDigit(s[p + 1]) /\ s[p + 1] # "0") )
     THEN << [len |-> 2, val |-> 10 * DigitVal(s[p]) + DigitVal(s[p + 1])] >>
     ELSE << >>)
    \o
    (IF p <= Len(s) /\ IsDigit(s[p]) /\ s[p] # "0"
     THEN << [len |-> 1, val |-> DigitVal(s[p])] >>
     ELSE << >>)

\* the alternatives of %d that match s at position p, in order
DayAlts(s, p) ==
    (IF p + 1 <= Len(s)
        /\ ( (s[p] = "3" /\ s[p + 1] \in {"0", "1"})
             \/ (s[p] \in {"1", "2"} /\ IsDigit(s[p + 1]))
             \/ (s[p] = "0" /\ IsDigit(s[p + 1]) /\ s[p + 1] # "0") )
     THEN << [len |-> 2, val |-> 10 * DigitVal(s[p]) + DigitVal(s[p + 1])] >>
     ELSE << >>)
    \o
    (IF p <= Len(s) /\ IsDigit(s[p]) /\ s[p] # "0"
     THEN << [len |-> 1, val |-> DigitVal(s[p])] >>
     ELSE << >>)
    \o
    (IF p + 1 <= Len(s) /\ s[p] = " " /\ IsDigit(s[p + 1]) /\ s[p + 1] # "0"
     THEN << [len |-> 2, val |-> DigitVal(s[p + 1])] >>
     ELSE << >>)

IsLeap(y) == (y % 4) = 0 /\ ((y % 100) # 0 \/ (y % 400) = 0)

DaysInMonth(y, m) ==
    IF m = 2 THEN (IF IsLeap(y) THEN 29 ELSE 28)
    ELSE IF m \in {4, 6, 9, 11} THEN 30
    ELSE 31

\* strftime('%Y-%m-%d') of a date with a four-digit year
FormatDate(y, m, d) ==
    << Digits[((y \div 1000) % 10) + 1], Digits[((y \div 100) % 10) + 1],
       Digits[((y \div 10) % 10) + 1], Digits[(y % 10) + 1], "-",
       Digits[(m \div 10) + 1], Digits[(m % 10) + 1], "-",
       Digits[(d \div 10) + 1], Digits[(d % 10) + 1] >>

\* strptime(s, '%Y%m%d') then strftime: None stands for ValueError
ParseDate(s) ==
    IF ~(Len(s) >= 4 /\ \A i \in 1..4 : IsDigit(s[i])) THEN None
    ELSE
      LET y  == 1000 * DigitVal(s[1]) + 100 * DigitVal(s[2])
                + 10 * DigitVal(s[3]) + DigitVal(s[4])
          ms == MonthAlts(s, 5)
          \* the first alternative of %m after which some alternative of %d matches
          mi == IF \E i \in 1..Len(ms) : DayAlts(s, 5 + ms[i].len) # << >>
                THEN CHOOSE i \in 1..Len(ms) :
                        /\ DayAlts(s, 5 + ms[i].len) # << >>
                        /\ \A j \in 1..(i - 1) : DayAlts(s, 5 + ms[j].len) = << >>
                ELSE 0
      IN  IF mi = 0 THEN None
          ELSE
            LET m == ms[mi]
                d == DayAlts(s, 5 + m.len)[1]
            IN  IF 4 + m.len + d.len # Len(s) THEN None      \* unconverted data remains
                ELSE IF y < 1 \/ d.val < 1 \/ d.val > DaysInMonth(y, m.val) THEN None
                ELSE FormatDate(y, m.val, d.val)

\* the loop of extract_date with the ValueError of strptime not caught: the
\* first part that has the shape decides, whether it parses or not
RECURSIVE ScanPartsNoContinue(_, _)
ScanPartsNoContinue(parts, i) ==
    IF i > Len(parts) THEN None
    ELSE IF Len(parts[i]) >= 9 /\ StartsWith(parts[i], << "2" >>)
            /\ Contains(<< "T" >>, parts[i])
         THEN ParseDate(Prefix(parts[i], 8))
         ELSE ScanPartsNoContinue(parts, i + 1)

\* the body of the loop of extract_date over parts[i..]: the date of the
\* first part that has the shape and parses, None when the loop falls through
RECURSIVE ScanParts(_, _)
ScanParts(parts, i) ==
    IF i > Len(parts) THEN None
    ELSE IF Len(parts[i]) >= 9 /\ StartsWith(parts[i], << "2" >>)
            /\ Contains(<< "T" >>, parts[i])
            /\ ParseDate(Prefix(parts[i], 8)) # None
         THEN ParseDate(Prefix(parts[i], 8))
         ELSE ScanParts(parts, i + 1)

\* IntensityProcessor.extract_date: None stands for the ValueError it raises
extract_date(zip_path) == ScanParts(Split(Basename(zip_path), "_"), 1)

(***************************************************************************)
(* Band-name search                                                        *)
(***************************************************************************)
Str_vv == << "v", "v" >>
Str_vh == << "v", "h" >>
Str_beta0 == << "b", "e", "t", "a", "0" >>
Str_intensity == << "i", "n", "t", "e", "n", "s", "i", "t", "y" >>
Str_coh == << "c", "o", "h" >>

\* the test of the if-branch without lower()
VVTestCaseSensitive(name) ==
    Contains(Str_vv, name)
    /\ (Contains(Str_beta0, name) \/ Contains(Str_intensity, name))

\* the condition of the if-branch of the intensity band loop
VVTest(name) ==
    Contains(Str_vv, Lower(name))
    /\ (Contains(Str_beta0, Lower(name)) \/ Contains(Str_intensity, Lower(name)))

\* the condition of the elif-branch of the intensity band loop
VHTest(name) ==
    Contains(Str_vh, Lower(name))
    /\ (Contains(Str_beta0, Lower(name)) \/ Contains(Str_intensity, Lower(name)))

\* the intensity band loop over names[i..], started with (vv, vh): every
\* name that passes a test overwrites the variable of its branch
RECURSIVE IntensityBandLoop(_, _, _, _)
IntensityBandLoop(names, i, vv, vh) ==
    IF i > Len(names) THEN [vv_name |-> vv, vh_name |-> vh]
    ELSE IF VVTest(names[i]) THEN IntensityBandLoop(names, i + 1, names[i], vh)
    ELSE IF VHTest(names[i]) THEN IntensityBandLoop(names, i + 1, vv, names[i])
    ELSE IntensityBandLoop(names, i + 1, vv, vh)

\* the condition of the coherence band loop
CohTest(band_name) == Contains(Str_coh, Lower(band_name))

\* the coherence band loop without its break: the last match stays
RECURSIVE CoherenceBandLoopNoBreak(_, _)
CoherenceBandLoopNoBreak(band_names, i) ==
    IF i > Len(band_names) THEN None
    ELSE IF CoherenceBandLoopNoBreak(band_names, i + 1) # None
         THEN CoherenceBandLoopNoBreak(band_names, i + 1)
    ELSE IF Contains(Str_coh, Lower(band_names[i])) THEN band_names[i]
    ELSE None

\* the coherence band loop over band_names[i..]: it breaks at the first match
RECURSIVE CoherenceBandLoop(_, _)
CoherenceBandLoop(band_names, i) ==
    IF i > Len(band_names) THEN None
    ELSE IF CohTest(band_names[i]) THEN band_names[i]
    ELSE CoherenceBandLoop(band_names, i + 1)


(***************************************************************************)
(* Bounds and input sets                                                   *)
(***************************************************************************)
\* longest band catalog a product of the engine reports
MaxCatalog == 3

\* band names the Terrain-Correction product of an intensity run may report
IntensityBandNames ==
    { Beta0_VV, Beta0_VH, Intensity_HH, Beta0_HH, Intensity_VV, Beta0_VV_VH }

\* band names the Interferogram product of a coherence run may report
CoherenceBandNames == { i_VV, q_VV, coh_VV, Coh_VH }

Catalogs(names) == UNION { [1..n -> names] : n \in 0..MaxCatalog }

ExampleIntensityCatalog == << Beta0_VV, Beta0_VH, Intensity_HH >>

ExampleCoherenceCatalog == << i_VV, q_VV, coh_VV >>

\* the catalogs a product reports in the runs a calling program makes: one
\* that fills every role and one that fills none
SampleIntensityCatalogs == { ExampleIntensityCatalog, << Beta0_HH >> }

SampleCoherenceCatalogs == { ExampleCoherenceCatalog, << i_VV, q_VV >> }

\* source paths a caller passes
InputPaths == { PreEventZip, PostEventZip, NoDateZip }

\* exceptions the engine raises (java exceptions seen through jpy): the
\* product reader and writer fail with IOException, an operator of GPF with
\* OperatorException
IOFault == "IOException"

OperatorFault == "OperatorException"

(***************************************************************************)
(* State                                                                   *)
(***************************************************************************)
VARIABLES
    config,      \* the ProcessingConfig the processor was constructed with
    fs,          \* the filesystem: path -> "file" or "dir", absent paths not in the domain
    call,        \* the call in progress: [kind, args, kwargs]
    pc,          \* position of the call
    loc,         \* local variables of the pipeline body
    nextHandle,  \* number of product handles the engine has handed out
    closed,      \* product handle -> number of times it was released (no
                 \* statement of either processor releases a product)
    log,         \* the engine calls made so far, in order
    result,      \* value returned to the caller
    error,       \* exception propagated to the caller
    caller,      \* the program that calls the pipelines: its arguments, its
                 \* position, the outcomes of the calls that returned to it and
                 \* its exit code
    parked       \* the thread that is not running, when the caller runs two
                 \* calls in two threads

vars ==
    << config, fs, call, pc, loc, nextHandle, closed, log, result, error,
       caller, parked >>

NoError == [type |-> "none", arg |-> None]
NoResult == << >>
NoCall == [kind |-> "none", args |-> << >>, kwargs |-> << >>]

Exception(type, arg) == [type |-> type, arg |-> arg]

\* ProcessingConfig() with its defaults
ProcessingConfig ==
    [ utm_projection |-> "EPSG:32643",
      dem_name       |-> "SRTM 3Sec",
      pixel_spacing  |-> "10.0",
      subswath       |-> "IW2",
      polarizations  |-> << PolVV, << "V", "H" >> >>,
      slope_calculation_method |-> "degrees",
      output_format  |-> "GeoTIFF" ]

InitLoc ==
    [ date_str |-> None, date2_str |-> None,
      product |-> 0, master |-> 0, slave |-> 0, product_final |-> 0,
      all_band_names |-> << >>, vv_name |-> None, vh_name |-> None,
      coherence_band_name |-> None,
      vv_product |-> 0, vh_product |-> 0,
      product_clean |-> 0, product_deburst |-> 0,
      product_filtered |-> 0, product_tc |-> 0, products_to_close |-> << >> ]

\* no calling program: the pipeline is called once, directly
NoCaller ==
    [ program |-> "none", pc |-> "none", args |-> << >>, returned |-> << >>,
      error |-> "none", exited |-> FALSE, exit_code |-> 0, switches |-> 0 ]

\* a thread that has not been given a call
NoThread ==
    [ call |-> NoCall, pc |-> "idle", loc |-> InitLoc,
      result |-> NoResult, error |-> NoError ]

\* sep.join(parts)
RECURSIVE JoinWith(_, _)
JoinWith(sep, parts) ==
    IF parts = << >> THEN << >>
    ELSE IF Len(parts) = 1 THEN parts[1]
    ELSE parts[1] \o sep \o JoinWith(sep, Tail(parts))

(***************************************************************************)
(* Calls and argument binding                                              *)
(***************************************************************************)
ParamNames(kind) ==
    IF kind = "intensity"
    THEN << "input_zip_path", "output_dir" >>
    ELSE << "master_zip_path", "slave_zip_path", "output_dir", "polarization" >>

\* the value python binds to parameter number i of the wrapped function:
\* positional arguments first, then keywords, then the default of polarization
Bound(c, i) ==
    IF i <= Len(c.args) THEN c.args[i]
    ELSE IF ParamNames(c.kind)[i] \in DOMAIN c.kwargs THEN c.kwargs[ParamNames(c.kind)[i]]
    ELSE PolVV

\* a call that passes vals[1..n], the first npos of them positionally
MakeCall(kind, vals, npos) ==
    [ kind   |-> kind,
      args   |-> SubSeq(vals, 1, npos),
      kwargs |-> [ name \in { ParamNames(kind)[i] : i \in (npos + 1)..Len(vals) }
                   |-> vals[CHOOSE i \in 1..Len(vals) : ParamNames(kind)[i] = name] ] ]


(***************************************************************************)
(* Validation decorators                                                   *)
(* The wrappers receive args = (self, positional arguments...); self is    *)
(* neither str nor Path and is skipped by both loops, so args here holds   *)
(* the positional arguments after self.  Keyword arguments are in kwargs,  *)
(* which neither loop reads.                                               *)
(***************************************************************************)
Exists(f, p) == p \in DOMAIN f

SetPath(f, p, v) == [q \in (DOMAIN f) \cup {p} |-> IF q = p THEN v ELSE f[q]]

\* the loop of validate_file_exists over args[i..]: the argument it raises
\* FileNotFoundError for, None when it falls through
RECURSIVE FirstMissing(_, _, _)
FirstMissing(args, i, f) ==
    IF i > Len(args) THEN None
    ELSE IF (EndsWith(args[i], SufZip) \/ EndsWith(args[i], SufTif))
            /\ ~Exists(f, args[i])
         THEN args[i]
         ELSE FirstMissing(args, i + 1, f)

\* the loop of validate_output_dir with mkdir(parents=True): a directory
\* that exists already raises FileExistsError
RECURSIVE MkdirLoopNoExistOk(_, _, _)
MkdirLoopNoExistOk(args, i, f) ==
    IF i > Len(args) THEN [fs |-> f, raised |-> NoError]
    ELSE IF ~(EndsWith(args[i], SufZip) \/ EndsWith(args[i], SufTif)
              \/ EndsWith(args[i], SufNc))
         THEN IF Exists(f, args[i])
              THEN [fs |-> f, raised |-> Exception("FileExistsError", args[i])]
              ELSE MkdirLoopNoExistOk(args, i + 1, SetPath(f, args[i], "dir"))
         ELSE MkdirLoopNoExistOk(args, i + 1, f)

\* the loop of validate_output_dir over args[i..] on filesystem f:
\* mkdir(parents=True, exist_ok=True) of every argument without a file suffix
RECURSIVE MkdirLoop(_, _, _)
MkdirLoop(args, i, f) ==
    IF i > Len(args) THEN [fs |-> f, raised |-> NoError]
    ELSE IF ~(EndsWith(args[i], SufZip) \/ EndsWith(args[i], SufTif)
              \/ EndsWith(args[i], SufNc))
         THEN IF Exists(f, args[i]) /\ f[args[i]] = "file"
              THEN [fs |-> f, raised |-> Exception("FileExistsError", args[i])]
              ELSE MkdirLoop(args, i + 1, SetPath(f, args[i], "dir"))
         ELSE MkdirLoop(args, i + 1, f)

(***************************************************************************)
(* Exceptions                                                              *)
(***************************************************************************)
\* an exception leaves the call: the caller sees it and gets no value
Raise(e) ==
    /\ error' = e
    /\ pc' = "failed"
    /\ result' = NoResult

\* the except clause without its raise: the error is logged and the call
\* returns None
ExceptSwallow(e) ==
    /\ error' = NoError
    /\ pc' = "done"
    /\ result' = NoResult

\* except Exception as e: logger.error(...); raise
ExceptReraise(e) == Raise(e)

(***************************************************************************)
(* Engine calls                                                            *)
(***************************************************************************)
LogEntry(opname, params, src, out, raised) ==
    [op |-> opname, params |-> params, src |-> src, out |-> out, raised |-> raised]

\* a body that puts the default subswath back into its config as it goes
EngineReturnResetsConfig(opname, params, src, dst, nextpc) ==
    /\ nextHandle' = nextHandle + 1
    /\ log' = Append(log, LogEntry(opname, params, src, nextHandle + 1, NoError))
    /\ loc' = [loc EXCEPT ![dst] = nextHandle + 1]
    /\ pc' = nextpc
    /\ config' = [config EXCEPT !.subswath = ProcessingConfig.subswath]
    /\ UNCHANGED << caller, parked, fs, call, closed, result, error >>

\* the engine returns a fresh product, which the body stores in loc[dst]
EngineReturn(opname, params, src, dst, nextpc) ==
    /\ nextHandle' = nextHandle + 1
    /\ log' = Append(log, LogEntry(opname, params, src, nextHandle + 1, NoError))
    /\ loc' = [loc EXCEPT ![dst] = nextHandle + 1]
    /\ pc' = nextpc
    /\ UNCHANGED << config, caller, parked, fs, call, closed, result, error >>

\* a body that makes its first engine call again after it raised
EngineRaiseRetry(opname, params, src, fault) ==
    /\ log' = Append(log, LogEntry(opname, params, src, 0, Exception(fault, None)))
    /\ IF log = << >>
       THEN UNCHANGED << pc, result, error >>
       ELSE ExceptReraise(Exception(fault, None))
    /\ UNCHANGED << config, caller, parked, fs, call, closed, loc, nextHandle >>

\* a body that removes the files it wrote before it re-raises
EngineRaiseRollback(opname, params, src, fault) ==
    /\ log' = Append(log, LogEntry(opname, params, src, 0, Exception(fault, None)))
    /\ ExceptReraise(Exception(fault, None))
    /\ fs' = [ p \in { q \in DOMAIN fs : \A i \in 1..Len(log) :
                                            log[i].op = "writeProduct"
                                                => log[i].params.path # q } |-> fs[p] ]
    /\ UNCHANGED << config, caller, parked, call, closed, loc, nextHandle >>

\* the engine raises fault, which the except clause of the body re-raises
EngineRaise(opname, params, src, fault) ==
    /\ log' = Append(log, LogEntry(opname, params, src, 0, Exception(fault, None)))
    /\ ExceptReraise(Exception(fault, None))
    /\ UNCHANGED << config, caller, parked, fs, call, closed, loc, nextHandle >>

\* loc[dst] = ProductIO.readProduct(path): a file that does not exist cannot
\* be read
ReadProduct(path, dst, nextpc) ==
    \/ /\ Exists(fs, path) /\ fs[path] = "file"
       /\ EngineReturn("readProduct", [path |-> path], [product |-> 0], dst, nextpc)
    \/ EngineRaise("readProduct", [path |-> path], [product |-> 0], IOFault)

\* loc[dst] = GPF.createProduct(opname, params, loc[srcfield])
CreateProduct(opname, params, srcfield, dst, nextpc) ==
    \/ EngineReturn(opname, params, [product |-> loc[srcfield]], dst, nextpc)
    \/ EngineRaise(opname, params, [product |-> loc[srcfield]], OperatorFault)

\* ProductIO.writeProduct(loc[srcfield], path, format): on success the file
\* exists, inside its directory
WriteProduct(srcfield, dir, path, nextpc, value) ==
    LET params == [path |-> path, format |-> config.output_format]
        src    == [product |-> loc[srcfield]]
    IN  \/ /\ log' = Append(log, LogEntry("writeProduct", params, src, 0, NoError))
           /\ fs' = SetPath(SetPath(fs, dir, "dir"), path, "file")
           /\ pc' = nextpc
           /\ result' = value
           /\ UNCHANGED << config, caller, parked, call, closed, loc, nextHandle, error >>
        \/ EngineRaise("writeProduct", params, src, IOFault)


(***************************************************************************)
(* The call and its decorators                                             *)
(***************************************************************************)
\* the filesystems in which some of paths exist, the output directory as a
\* directory and every other path as a file
FileSystems(paths) ==
    { [p \in present |-> IF p = OutputDir THEN "dir" ELSE "file"] :
        present \in SUBSET paths }

\* the state after construction and before any call, on filesystem f and
\* with calling program c
StartWith(f, c, cfg) ==
    /\ config = cfg
    /\ fs = f
    /\ call = NoCall
    /\ pc = "idle"
    /\ loc = InitLoc
    /\ nextHandle = 0
    /\ closed = [h \in {} |-> 0]
    /\ log = << >>
    /\ result = NoResult
    /\ error = NoError
    /\ parked = NoThread
    /\ caller = c

\* the same, the processor constructed with no config: ProcessingConfig()
Start(f, c) == StartWith(f, c, ProcessingConfig)

Init == \E f \in FileSystems(InputPaths \cup { OutputDir }) : Start(f, NoCaller)

\* the filesystem holds nothing but paths the call names: a path the call
\* does not name plays no part in it
OnlyNamed(vals) == \A p \in DOMAIN fs : \E i \in 1..Len(vals) : vals[i] = p

\* a caller invokes generate_intensity_maps(input_zip_path, output_dir)
CallIntensity ==
    /\ pc = "idle"
    /\ \E input \in InputPaths, npos \in 0..2 :
          /\ OnlyNamed(<< input, OutputDir >>)
          /\ call' = MakeCall("intensity", << input, OutputDir >>, npos)
    /\ pc' = "validate_file_exists"
    /\ UNCHANGED << config, caller, parked, fs, loc, nextHandle, closed, log, result, error >>

\* a caller invokes generate_coherence_map(master_zip_path, slave_zip_path,
\* output_dir[, polarization])
CallCoherence ==
    /\ pc = "idle"
    /\ \E master \in InputPaths, slave \in InputPaths :
          /\ OnlyNamed(<< master, slave, OutputDir >>)
          /\ \/ \E npos \in 0..3 :
                   call' = MakeCall("coherence", << master, slave, OutputDir >>, npos)
             \/ \E npos \in 0..4 :
                   call' = MakeCall("coherence", << master, slave, OutputDir, PolVV >>, npos)
    /\ pc' = "validate_file_exists"
    /\ UNCHANGED << config, caller, parked, fs, loc, nextHandle, closed, log, result, error >>

\* a wrapper that also looks at the keyword arguments
ValidateFileExistsKwargs ==
    /\ pc = "validate_file_exists"
    /\ IF FirstMissing(call.args, 1, fs) # None
       THEN Raise(Exception("FileNotFoundError", FirstMissing(call.args, 1, fs)))
       ELSE IF \E n \in DOMAIN call.kwargs :
                  /\ EndsWith(call.kwargs[n], SufZip) \/ EndsWith(call.kwargs[n], SufTif)
                  /\ ~Exists(fs, call.kwargs[n])
       THEN Raise(Exception("FileNotFoundError", None))
       ELSE pc' = "validate_output_dir" /\ UNCHANGED << result, error >>
    /\ UNCHANGED << config, caller, parked, fs, call, loc, nextHandle, closed, log >>

\* the decorators stacked the other way round: the directories are made
\* before the files are looked for
ValidateFileExistsAfterMkdir ==
    /\ pc = "validate_file_exists"
    /\ fs' = MkdirLoop(call.args, 1, fs).fs
    /\ IF FirstMissing(call.args, 1, fs) # None
       THEN Raise(Exception("FileNotFoundError", FirstMissing(call.args, 1, fs)))
       ELSE pc' = "validate_output_dir" /\ UNCHANGED << result, error >>
    /\ UNCHANGED << config, caller, parked, call, loc, nextHandle, closed, log >>

\* the wrapper of validate_file_exists, the outer decorator
ValidateFileExists ==
    /\ pc = "validate_file_exists"
    /\ IF FirstMissing(call.args, 1, fs) # None
       THEN Raise(Exception("FileNotFoundError", FirstMissing(call.args, 1, fs)))
       ELSE pc' = "validate_output_dir" /\ UNCHANGED << result, error >>
    /\ UNCHANGED << config, caller, parked, fs, call, loc, nextHandle, closed, log >>

\* the wrapper of validate_output_dir, the inner decorator
ValidateOutputDir ==
    /\ pc = "validate_output_dir"
    /\ fs' = MkdirLoop(call.args, 1, fs).fs
    /\ IF MkdirLoop(call.args, 1, fs).raised # NoError
       THEN Raise(MkdirLoop(call.args, 1, fs).raised)
       ELSE pc' = "extract_date" /\ UNCHANGED << result, error >>
    /\ UNCHANGED << config, caller, parked, call, loc, nextHandle, closed, log >>

(***************************************************************************)
(* IntensityProcessor.generate_intensity_maps, the body                    *)
(***************************************************************************)
I_ExtractDate ==
    /\ call.kind = "intensity" /\ pc = "extract_date"
    /\ IF extract_date(Bound(call, 1)) = None
       THEN /\ ExceptReraise(Exception("ValueError", Bound(call, 1)))
            /\ loc' = loc
       ELSE /\ loc' = [loc EXCEPT !.date_str = extract_date(Bound(call, 1))]
            /\ pc' = "i_read"
            /\ UNCHANGED << result, error >>
    /\ UNCHANGED << config, caller, parked, fs, call, nextHandle, closed, log >>

I_Read ==
    /\ call.kind = "intensity" /\ pc = "i_read"
    /\ ReadProduct(Bound(call, 1), "product", "i_split")

I_Split ==
    /\ call.kind = "intensity" /\ pc = "i_split"
    /\ CreateProduct("TOPSAR-Split",
                     [ subswath |-> config.subswath,
                       selectedPolarisations |-> JoinWith(<< "," >>, config.polarizations) ],
                     "product", "product", "i_orbit")

I_ApplyOrbit ==
    /\ call.kind = "intensity" /\ pc = "i_orbit"
    /\ CreateProduct("Apply-Orbit-File", << >>, "product", "product", "i_noise")

\* the stage left out of the chain
I_ThermalNoiseSkipped ==
    /\ call.kind = "intensity" /\ pc = "i_noise"
    /\ pc' = "i_calib"
    /\ UNCHANGED << config, caller, parked, fs, call, loc, nextHandle, closed, log, result, error >>

I_ThermalNoise ==
    /\ call.kind = "intensity" /\ pc = "i_noise"
    /\ CreateProduct("ThermalNoiseRemoval", << >>, "product", "product", "i_calib")

I_Calibration ==
    /\ call.kind = "intensity" /\ pc = "i_calib"
    /\ CreateProduct("Calibration", [outputBetaBand |-> TRUE],
                     "product", "product", "i_deburst")

I_Deburst ==
    /\ call.kind = "intensity" /\ pc = "i_deburst"
    /\ CreateProduct("TOPSAR-Deburst", << >>, "product", "product", "i_speckle")

I_SpeckleFilter ==
    /\ call.kind = "intensity" /\ pc = "i_speckle"
    /\ CreateProduct("Speckle-Filter",
                     [filter |-> "Refined Lee", filterSizeX |-> 5, filterSizeY |-> 5],
                     "product", "product", "i_tc")

I_TerrainCorrection ==
    /\ call.kind = "intensity" /\ pc = "i_tc"
    /\ CreateProduct("Terrain-Correction",
                     [ demName |-> config.dem_name,
                       mapProjection |-> config.utm_projection,
                       pixelSpacingInMeter |-> config.pixel_spacing ],
                     "product", "product_final", "i_bands")

\* the band check with "and" in place of "or": it raises only when both
\* names are missing
I_ResolveBandsAnd ==
    /\ call.kind = "intensity" /\ pc = "i_bands"
    /\ \E names \in Catalogs(IntensityBandNames) :
          LET found == IntensityBandLoop(names, 1, None, None)
          IN  /\ loc' = [loc EXCEPT !.all_band_names = names,
                                    !.vv_name = found.vv_name,
                                    !.vh_name = found.vh_name]
              /\ IF found.vv_name = None /\ found.vh_name = None
                 THEN ExceptReraise(Exception("RuntimeError", names))
                 ELSE pc' = "i_select_vv" /\ UNCHANGED << result, error >>
    /\ UNCHANGED << config, caller, parked, fs, call, nextHandle, closed, log >>

\* all_band_names = list(product_final.getBandNames()), the search loop and
\* the check that both names were found, for a product that reports one of
\* catalogs
I_ResolveBandsOf(catalogs) ==
    /\ call.kind = "intensity" /\ pc = "i_bands"
    /\ \E names \in catalogs :
          LET found == IntensityBandLoop(names, 1, None, None)
          IN  /\ loc' = [loc EXCEPT !.all_band_names = names,
                                    !.vv_name = found.vv_name,
                                    !.vh_name = found.vh_name]
              /\ IF found.vv_name = None \/ found.vh_name = None
                 THEN ExceptReraise(Exception("RuntimeError", names))
                 ELSE pc' = "i_select_vv" /\ UNCHANGED << result, error >>
    /\ UNCHANGED << config, caller, parked, fs, call, nextHandle, closed, log >>

I_ResolveBands == I_ResolveBandsOf(Catalogs(IntensityBandNames))

\* the same for a product that reports one of the sample catalogs
I_ResolveBandsSample == I_ResolveBandsOf(SampleIntensityCatalogs)

\* a VV path that carries the name of the scene
vv_output_path_of_scene ==
    PathJoin(Bound(call, 2), Basename(Bound(call, 1)) \o loc.date_str \o VvTif)

vv_output_path == PathJoin(Bound(call, 2), loc.date_str \o VvTif)

vh_output_path == PathJoin(Bound(call, 2), loc.date_str \o VhTif)

I_SelectVV ==
    /\ call.kind = "intensity" /\ pc = "i_select_vv"
    /\ CreateProduct("BandSelect", [sourceBands |-> << loc.vv_name >>],
                     "product_final", "vv_product", "i_write_vv")

I_WriteVV ==
    /\ call.kind = "intensity" /\ pc = "i_write_vv"
    /\ WriteProduct("vv_product", Bound(call, 2), vv_output_path, "i_select_vh", result)

I_SelectVH ==
    /\ call.kind = "intensity" /\ pc = "i_select_vh"
    /\ CreateProduct("BandSelect", [sourceBands |-> << loc.vh_name >>],
                     "product_final", "vh_product", "i_write_vh")

\* the second write and the return of both paths
I_WriteVH ==
    /\ call.kind = "intensity" /\ pc = "i_write_vh"
    /\ WriteProduct("vh_product", Bound(call, 2), vh_output_path, "done",
                    << vv_output_path, vh_output_path >>)

Intensity ==
    \/ I_ExtractDate \/ I_Read \/ I_Split \/ I_ApplyOrbit \/ I_ThermalNoise
    \/ I_Calibration \/ I_Deburst \/ I_SpeckleFilter \/ I_TerrainCorrection
    \/ I_ResolveBands \/ I_SelectVV \/ I_WriteVV \/ I_SelectVH \/ I_WriteVH

\* the body with a product that reports one of the sample catalogs
IntensitySample ==
    \/ I_ExtractDate \/ I_Read \/ I_Split \/ I_ApplyOrbit \/ I_ThermalNoise
    \/ I_Calibration \/ I_Deburst \/ I_SpeckleFilter \/ I_TerrainCorrection
    \/ I_ResolveBandsSample \/ I_SelectVV \/ I_WriteVV \/ I_SelectVH \/ I_WriteVH


(***************************************************************************)
(* CoherenceProcessor.generate_coherence_map, the body                     *)
(* The two getBandNames() calls that only feed logger.debug are left out:  *)
(* they change no variable of the body.                                    *)
(***************************************************************************)
\* the date of the slave not asked for before the products are read
C_ExtractDateMasterOnly ==
    /\ call.kind = "coherence" /\ pc = "extract_date"
    /\ IF extract_date(Bound(call, 1)) = None
       THEN /\ ExceptReraise(Exception("ValueError", Bound(call, 1)))
            /\ loc' = loc
       ELSE /\ loc' = [loc EXCEPT !.date_str = extract_date(Bound(call, 1)),
                                  !.date2_str = extract_date(Bound(call, 2))]
            /\ pc' = "c_read_master"
            /\ UNCHANGED << result, error >>
    /\ UNCHANGED << config, caller, parked, fs, call, nextHandle, closed, log >>

\* both dates, the master's first, and the file name built from them
C_ExtractDate ==
    /\ call.kind = "coherence" /\ pc = "extract_date"
    /\ IF extract_date(Bound(call, 1)) = None
       THEN /\ ExceptReraise(Exception("ValueError", Bound(call, 1)))
            /\ loc' = loc
       ELSE IF extract_date(Bound(call, 2)) = None
       THEN /\ ExceptReraise(Exception("ValueError", Bound(call, 2)))
            /\ loc' = [loc EXCEPT !.date_str = extract_date(Bound(call, 1))]
       ELSE /\ loc' = [loc EXCEPT !.date_str = extract_date(Bound(call, 1)),
                                  !.date2_str = extract_date(Bound(call, 2))]
            /\ pc' = "c_read_master"
            /\ UNCHANGED << result, error >>
    /\ UNCHANGED << config, caller, parked, fs, call, nextHandle, closed, log >>

\* the file name with the slave's date first
coherence_filename_slave_first == loc.date2_str \o << "_" >> \o loc.date_str \o CohTif

coherence_filename == loc.date_str \o << "_" >> \o loc.date2_str \o CohTif

C_ReadMaster ==
    /\ call.kind = "coherence" /\ pc = "c_read_master"
    /\ ReadProduct(Bound(call, 1), "master", "c_read_slave")

C_ReadSlave ==
    /\ call.kind = "coherence" /\ pc = "c_read_slave"
    /\ ReadProduct(Bound(call, 2), "slave", "c_split_master")

split_params ==
    [subswath |-> config.subswath, selectedPolarisations |-> Bound(call, 4)]

C_SplitMaster ==
    /\ call.kind = "coherence" /\ pc = "c_split_master"
    /\ CreateProduct("TOPSAR-Split", split_params, "master", "master", "c_split_slave")

C_SplitSlave ==
    /\ call.kind = "coherence" /\ pc = "c_split_slave"
    /\ CreateProduct("TOPSAR-Split", split_params, "slave", "slave", "c_orbit_master")

C_OrbitMaster ==
    /\ call.kind = "coherence" /\ pc = "c_orbit_master"
    /\ CreateProduct("Apply-Orbit-File", << >>, "master", "master", "c_orbit_slave")

C_OrbitSlave ==
    /\ call.kind = "coherence" /\ pc = "c_orbit_slave"
    /\ CreateProduct("Apply-Orbit-File", << >>, "slave", "slave", "c_coregister")

\* a source map that names the slave's product Master and the master's Slave
C_BackGeocodingSwapped ==
    /\ call.kind = "coherence" /\ pc = "c_coregister"
    /\ LET bg_params     == [demName |-> config.dem_name]
           bg_source_map == [Master |-> loc.slave, Slave |-> loc.master]
       IN  \/ EngineReturn("Back-Geocoding", bg_params, bg_source_map,
                           "product", "c_interferogram")
           \/ EngineRaise("Back-Geocoding", bg_params, bg_source_map, OperatorFault)

\* GPF.createProduct("Back-Geocoding", bg_params, bg_source_map)
C_BackGeocoding ==
    /\ call.kind = "coherence" /\ pc = "c_coregister"
    /\ LET bg_params     == [demName |-> config.dem_name]
           bg_source_map == [Master |-> loc.master, Slave |-> loc.slave]
       IN  \/ EngineReturn("Back-Geocoding", bg_params, bg_source_map,
                           "product", "c_interferogram")
           \/ EngineRaise("Back-Geocoding", bg_params, bg_source_map, OperatorFault)

C_Interferogram ==
    /\ call.kind = "coherence" /\ pc = "c_interferogram"
    /\ CreateProduct("Interferogram", << >>, "product", "product", "c_bands")

\* band_names = list(product.getBandNames()), the search loop and the check
\* that a name was found, for a product that reports one of catalogs
C_ResolveBandOf(catalogs) ==
    /\ call.kind = "coherence" /\ pc = "c_bands"
    /\ \E band_names \in catalogs :
          /\ loc' = [loc EXCEPT !.all_band_names = band_names,
                                !.coherence_band_name = CoherenceBandLoop(band_names, 1)]
          /\ IF CoherenceBandLoop(band_names, 1) = None
             THEN ExceptReraise(Exception("RuntimeError", << >>))
             ELSE pc' = "c_select" /\ UNCHANGED << result, error >>
    /\ UNCHANGED << config, caller, parked, fs, call, nextHandle, closed, log >>

C_ResolveBand == C_ResolveBandOf(Catalogs(CoherenceBandNames))

\* the same for a product that reports one of the sample catalogs
C_ResolveBandSample == C_ResolveBandOf(SampleCoherenceCatalogs)

C_BandSelect ==
    /\ call.kind = "coherence" /\ pc = "c_select"
    /\ CreateProduct("BandSelect", [sourceBands |-> << loc.coherence_band_name >>],
                     "product", "product_clean", "c_deburst")

C_Deburst ==
    /\ call.kind = "coherence" /\ pc = "c_deburst"
    /\ CreateProduct("TOPSAR-Deburst", << >>, "product_clean", "product_deburst", "c_tc")

C_TerrainCorrection ==
    /\ call.kind = "coherence" /\ pc = "c_tc"
    /\ CreateProduct("Terrain-Correction",
                     [ demName |-> config.dem_name,
                       mapProjection |-> config.utm_projection ],
                     "product_deburst", "product_final", "c_write")

output_path == PathJoin(Bound(call, 3), coherence_filename)

\* the write of the deburst product in place of the terrain-corrected one
C_WriteDeburst ==
    /\ call.kind = "coherence" /\ pc = "c_write"
    /\ WriteProduct("product_deburst", Bound(call, 3), output_path, "done",
                    << output_path >>)

\* the write and the return of the path
C_Write ==
    /\ call.kind = "coherence" /\ pc = "c_write"
    /\ WriteProduct("product_final", Bound(call, 3), output_path, "done",
                    << output_path >>)

Coherence ==
    \/ C_ExtractDate \/ C_ReadMaster \/ C_ReadSlave \/ C_SplitMaster \/ C_SplitSlave
    \/ C_OrbitMaster \/ C_OrbitSlave \/ C_BackGeocoding \/ C_Interferogram
    \/ C_ResolveBand \/ C_BandSelect \/ C_Deburst \/ C_TerrainCorrection \/ C_Write

\* the body with a product that reports one of the sample catalogs
CoherenceSample ==
    \/ C_ExtractDate \/ C_ReadMaster \/ C_ReadSlave \/ C_SplitMaster \/ C_SplitSlave
    \/ C_OrbitMaster \/ C_OrbitSlave \/ C_BackGeocoding \/ C_Interferogram
    \/ C_ResolveBandSample \/ C_BandSelect \/ C_Deburst \/ C_TerrainCorrection
    \/ C_Write

Next ==
    \/ CallIntensity \/ CallCoherence
    \/ ValidateFileExists \/ ValidateOutputDir
    \/ Intensity \/ Coherence

Spec == Init /\ [][Next]_vars

(***************************************************************************)
(* Processors constructed with a config of the caller's                    *)
(***************************************************************************)
\* IntensityProcessor(config) / CoherenceProcessor(config): the default
\* config and one with other values
Configs ==
    { ProcessingConfig,
      [ ProcessingConfig EXCEPT !.subswath = "IW1",
                                !.utm_projection = "EPSG:32644",
                                !.polarizations = << PolVV >>,
                                !.output_format = "NetCDF4-CF" ] }

ConfigInit ==
    \E cfg \in Configs :
        \E f \in FileSystems(InputPaths \cup { OutputDir }) : StartWith(f, NoCaller, cfg)

ConfigNext ==
    \/ CallIntensity \/ CallCoherence
    \/ ValidateFileExists \/ ValidateOutputDir
    \/ IntensitySample \/ CoherenceSample

ConfigSpec == ConfigInit /\ [][ConfigNext]_vars

(***************************************************************************)
(* A program that calls the pipeline more than once                        *)
(***************************************************************************)
\* most calls a calling program makes one after the other
MaxRuns == 2

\* the number of times product h was released
ReleaseCount(h) == IF h \in DOMAIN closed THEN closed[h] ELSE 0

\* the call has returned or raised
Ended == pc \in { "done", "failed" }

\* what the calling program keeps of the call that ended
Outcome == [call |-> call, result |-> result, error |-> error.type]

\* the call that ended returns or raises into the calling program, which
\* becomes c; the locals of the call are gone
ReturnToCaller(c) ==
    /\ Ended
    /\ caller' = c
    /\ call' = NoCall
    /\ pc' = "idle"
    /\ loc' = InitLoc
    /\ log' = << >>
    /\ result' = NoResult
    /\ error' = NoError
    /\ UNCHANGED << config, parked, fs, nextHandle, closed >>

\* processor.generate_intensity_maps(input_zip_path, output_dir), once more
\* with the same arguments and the same processor
Rerun_Call ==
    /\ caller.program = "rerun" /\ pc = "idle"
    /\ Len(caller.returned) < MaxRuns
    /\ call' = MakeCall("intensity", caller.args, Len(caller.args))
    /\ pc' = "validate_file_exists"
    /\ UNCHANGED << config, caller, parked, fs, loc, nextHandle, closed, log, result, error >>

Rerun_Return ==
    /\ caller.program = "rerun"
    /\ ReturnToCaller([caller EXCEPT !.returned = Append(@, Outcome)])

RerunInit ==
    \E input \in InputPaths :
        \E f \in FileSystems({ input, OutputDir }) :
            Start(f, [NoCaller EXCEPT !.program = "rerun",
                                      !.args = << input, OutputDir >>])

RerunNext ==
    \/ Rerun_Call \/ ValidateFileExists \/ ValidateOutputDir
    \/ IntensitySample \/ Rerun_Return

RerunSpec == RerunInit /\ [][RerunNext]_vars

(***************************************************************************)
(* cli.main: the command surface                                           *)
(* parse_args is done when main starts: caller.args holds the subcommand   *)
(* and its paths (first: slc_file, master_file or --pre-event; second:     *)
(* slave_file or --post-event).  process_file and process_pair pass their  *)
(* arguments on positionally as strings.                                   *)
(***************************************************************************)
CliArgs ==
    { [command |-> c, first |-> None, second |-> None, output_dir |-> OutputDir] :
        c \in { "test", "help" } }
    \cup { [command |-> "intensity", first |-> a, second |-> None,
            output_dir |-> OutputDir] : a \in InputPaths }
    \cup { [command |-> "coherence", first |-> a, second |-> b,
            output_dir |-> OutputDir] : a \in InputPaths, b \in InputPaths }
    \cup { [command |-> "process-all", first |-> PreEventZip, second |-> PostEventZip,
            output_dir |-> OutputDir] }

\* main has ended with exit code code
Exit(code) == [caller EXCEPT !.pc = "exited", !.exited = TRUE, !.exit_code = code]

\* main makes a call of kind with the positional arguments vals and will go
\* on at nextpc when it returns; args.output_dir.mkdir(parents=True,
\* exist_ok=True) has been done
Invoke(kind, vals, nextpc) ==
    /\ fs' = SetPath(fs, caller.args.output_dir, "dir")
    /\ call' = MakeCall(kind, vals, Len(vals))
    /\ pc' = "validate_file_exists"
    /\ caller' = [caller EXCEPT !.pc = nextpc]
    /\ UNCHANGED << config, parked, loc, nextHandle, closed, log, result, error >>

\* main ends without a call
Leave(c) ==
    /\ caller' = c
    /\ UNCHANGED << config, parked, fs, call, pc, loc, nextHandle, closed, log,
                    result, error >>

\* ProjectPaths() cannot make its directories: the except clause of main
Main_SetupFails ==
    /\ caller.program = "main" /\ caller.pc = "start"
    /\ Leave([Exit(1) EXCEPT !.error = "OSError"])

\* args.command == 'test'
Main_Test ==
    /\ caller.program = "main" /\ caller.pc = "start"
    /\ caller.args.command = "test"
    /\ Leave(Exit(0))

\* no subcommand: parser.print_help()
Main_Help ==
    /\ caller.program = "main" /\ caller.pc = "start"
    /\ caller.args.command = "help"
    /\ Leave(Exit(0))

\* args.command == 'intensity'
Main_Intensity ==
    /\ caller.program = "main" /\ caller.pc = "start"
    /\ caller.args.command = "intensity"
    /\ Invoke("intensity", << caller.args.first, caller.args.output_dir >>, "last")

\* args.command == 'coherence'
Main_Coherence ==
    /\ caller.program = "main" /\ caller.pc = "start"
    /\ caller.args.command = "coherence"
    /\ Invoke("coherence",
              << caller.args.first, caller.args.second, caller.args.output_dir >>,
              "last")

\* args.command == 'process-all': the pre-event intensity maps, or the
\* return when the pre-event file does not exist
Main_ProcessAll_Pre ==
    /\ caller.program = "main" /\ caller.pc = "start"
    /\ caller.args.command = "process-all"
    /\ IF Exists(fs, caller.args.first)
       THEN Invoke("intensity", << caller.args.first, caller.args.output_dir >>, "post")
       ELSE /\ fs' = SetPath(fs, caller.args.output_dir, "dir")
            /\ caller' = Exit(0)
            /\ UNCHANGED << config, parked, call, pc, loc, nextHandle, closed, log,
                            result, error >>

\* a process-all that raises FileNotFoundError for a missing post-event file
Main_ProcessAll_PostRaises ==
    /\ caller.program = "main" /\ caller.pc = "post" /\ pc = "idle"
    /\ IF Exists(fs, caller.args.second)
       THEN Invoke("intensity", << caller.args.second, caller.args.output_dir >>,
                   "coherence")
       ELSE Leave([Exit(1) EXCEPT !.error = "FileNotFoundError"])

\* the post-event intensity maps, or the return when the post-event file
\* does not exist
Main_ProcessAll_Post ==
    /\ caller.program = "main" /\ caller.pc = "post" /\ pc = "idle"
    /\ IF Exists(fs, caller.args.second)
       THEN Invoke("intensity", << caller.args.second, caller.args.output_dir >>,
                   "coherence")
       ELSE Leave(Exit(0))

\* the coherence map when both files exist
Main_ProcessAll_Coherence ==
    /\ caller.program = "main" /\ caller.pc = "coherence" /\ pc = "idle"
    /\ IF Exists(fs, caller.args.first) /\ Exists(fs, caller.args.second)
       THEN Invoke("coherence",
                   << caller.args.first, caller.args.second, caller.args.output_dir >>,
                   "last")
       ELSE Leave(Exit(0))

\* a call returns into main
Main_Return ==
    /\ caller.program = "main" /\ pc = "done"
    /\ ReturnToCaller([caller EXCEPT !.returned = Append(@, Outcome)])

\* an except clause that logs the error and lets main go on
Main_ExceptGoOn ==
    /\ caller.program = "main" /\ pc = "failed"
    /\ ReturnToCaller([caller EXCEPT !.returned = Append(@, Outcome)])

\* the except clause without sys.exit(1)
Main_ExceptPass ==
    /\ caller.program = "main" /\ pc = "failed"
    /\ ReturnToCaller([Exit(0) EXCEPT !.returned = Append(@, Outcome),
                                      !.error = error.type])

\* a call raises into main: except Exception as e: logger.error; sys.exit(1)
Main_Except ==
    /\ caller.program = "main" /\ pc = "failed"
    /\ ReturnToCaller([Exit(1) EXCEPT !.returned = Append(@, Outcome),
                                      !.error = error.type])

\* main returns after its last call
Main_Finish ==
    /\ caller.program = "main" /\ caller.pc = "last" /\ pc = "idle"
    /\ Leave(Exit(0))

CliInit ==
    \E a \in CliArgs :
        \E f \in FileSystems(({ a.first, a.second } \ { None }) \cup { OutputDir }) :
            Start(f, [NoCaller EXCEPT !.program = "main", !.pc = "start", !.args = a])

CliNext ==
    \/ Main_SetupFails \/ Main_Test \/ Main_Help \/ Main_Intensity \/ Main_Coherence
    \/ Main_ProcessAll_Pre \/ Main_ProcessAll_Post \/ Main_ProcessAll_Coherence
    \/ ValidateFileExists \/ ValidateOutputDir \/ IntensitySample \/ CoherenceSample
    \/ Main_Return \/ Main_Except \/ Main_Finish

CliSpec == CliInit /\ [][CliNext]_vars

(***************************************************************************)
(* full_processor.py: generate_intensity_maps of the script                *)
(* The script has no guards and no except clause; it keeps the products it *)
(* obtains in products_to_close and closes them after the second write.    *)
(***************************************************************************)
\* the loop of extract_date of full_processor.py over parts[i..]: as
\* ScanParts, with date_str.isdigit() asked before strptime
RECURSIVE full_processor_ScanParts(_, _)
full_processor_ScanParts(parts, i) ==
    IF i > Len(parts) THEN None
    ELSE IF Len(parts[i]) >= 9 /\ StartsWith(parts[i], << "2" >>)
            /\ Contains(<< "T" >>, parts[i])
            /\ \A k \in 1..Len(Prefix(parts[i], 8)) : IsDigit(parts[i][k])
            /\ ParseDate(Prefix(parts[i], 8)) # None
         THEN ParseDate(Prefix(parts[i], 8))
         ELSE full_processor_ScanParts(parts, i + 1)

full_processor_extract_date(zip_path) ==
    full_processor_ScanParts(Split(Basename(zip_path), "_"), 1)

\* the GPF.createProduct calls between the read and the band search, in
\* order: operator, parameters, the local that is the source and the local
\* that takes the product
LegacyStages ==
    << [ op |-> "TOPSAR-Split", src |-> "product", dst |-> "product",
         params |-> [subswath |-> "IW2", selectedPolarisations |-> "VV,VH"] ],
       [ op |-> "Apply-Orbit-File", src |-> "product", dst |-> "product",
         params |-> << >> ],
       [ op |-> "ThermalNoiseRemoval", src |-> "product", dst |-> "product",
         params |-> << >> ],
       [ op |-> "Calibration", src |-> "product", dst |-> "product",
         params |-> [outputBetaBand |-> TRUE] ],
       [ op |-> "TOPSAR-Deburst", src |-> "product", dst |-> "product_deburst",
         params |-> << >> ],
       [ op |-> "Speckle-Filter", src |-> "product_deburst", dst |-> "product_filtered",
         params |-> [filter |-> "Refined Lee", filterSizeX |-> 5, filterSizeY |-> 5] ],
       [ op |-> "Terrain-Correction", src |-> "product_filtered", dst |-> "product_tc",
         params |-> [ demName |-> "SRTM 3Sec", mapProjection |-> "EPSG:32643",
                      pixelSpacingInMeter |-> "10.0" ] ] >>

\* an exception leaves the script's function: nothing catches it
F_Raise(e) ==
    /\ Raise(e)
    /\ UNCHANGED << config, caller, parked, fs, call, loc, nextHandle, closed >>

\* loc[dst] = <engine call>; products_to_close.append(loc[dst]), or the
\* engine call raises; it can return only if able
F_Obtain(opname, params, srcfield, dst, fault, nextpc, able) ==
    LET src == [product |-> IF srcfield = "none" THEN 0 ELSE loc[srcfield]]
    IN  \/ /\ able
           /\ nextHandle' = nextHandle + 1
           /\ log' = Append(log, LogEntry(opname, params, src, nextHandle + 1, NoError))
           /\ loc' = [loc EXCEPT ![dst] = nextHandle + 1,
                                 !.products_to_close = Append(@, nextHandle + 1)]
           /\ pc' = nextpc
           /\ UNCHANGED << config, caller, parked, fs, call, closed, result, error >>
        \/ /\ log' = Append(log, LogEntry(opname, params, src, 0, Exception(fault, None)))
           /\ F_Raise(Exception(fault, None))

\* the script calls generate_intensity_maps(input_zip_path, output_dir)
F_Call ==
    /\ caller.program = "full_processor" /\ pc = "idle"
    /\ call' = MakeCall("full_processor_intensity", caller.args, Len(caller.args))
    /\ pc' = "f_extract_date"
    /\ UNCHANGED << config, caller, parked, fs, loc, nextHandle, closed, log, result, error >>

F_ExtractDate ==
    /\ call.kind = "full_processor_intensity" /\ pc = "f_extract_date"
    /\ IF full_processor_extract_date(Bound(call, 1)) = None
       THEN /\ F_Raise(Exception("ValueError", Bound(call, 1)))
            /\ log' = log
       ELSE /\ loc' = [loc EXCEPT !.date_str = full_processor_extract_date(Bound(call, 1))]
            /\ pc' = "f_read"
            /\ UNCHANGED << config, caller, parked, fs, call, nextHandle, closed, log,
                            result, error >>

F_Read ==
    /\ call.kind = "full_processor_intensity" /\ pc = "f_read"
    /\ F_Obtain("readProduct", [path |-> Bound(call, 1)], "none", "product",
                IOFault, "f_stage",
                Exists(fs, Bound(call, 1)) /\ fs[Bound(call, 1)] = "file")

\* the next GPF.createProduct of the chain: the number of products kept so
\* far tells which one
F_CreateProduct ==
    /\ call.kind = "full_processor_intensity" /\ pc = "f_stage"
    /\ LET k  == Len(loc.products_to_close)
           st == LegacyStages[k]
       IN  F_Obtain(st.op, st.params, st.src, st.dst, OperatorFault,
                    IF k = Len(LegacyStages) THEN "f_bands" ELSE "f_stage", TRUE)

\* the band search on product_tc and the check
F_ResolveBands ==
    /\ call.kind = "full_processor_intensity" /\ pc = "f_bands"
    /\ \E names \in SampleIntensityCatalogs :
          LET found == IntensityBandLoop(names, 1, None, None)
          IN  IF found.vv_name = None \/ found.vh_name = None
              THEN /\ F_Raise(Exception("RuntimeError", None))
                   /\ log' = log
              ELSE /\ loc' = [loc EXCEPT !.all_band_names = names,
                                         !.vv_name = found.vv_name,
                                         !.vh_name = found.vh_name]
                   /\ pc' = "f_write_vv"
                   /\ UNCHANGED << config, caller, parked, fs, call, nextHandle, closed,
                                   log, result, error >>

\* GPF.createProduct("Write", write_params, product_tc): the product it
\* returns is kept nowhere
F_Write(path, band, nextpc) ==
    LET params == [formatName |-> "GeoTIFF", file |-> path, sourceBands |-> << band >>]
        src    == [product |-> loc.product_tc]
    IN  \/ /\ nextHandle' = nextHandle + 1
           /\ log' = Append(log, LogEntry("Write", params, src, nextHandle + 1, NoError))
           /\ fs' = SetPath(SetPath(fs, Bound(call, 2), "dir"), path, "file")
           /\ pc' = nextpc
           /\ UNCHANGED << config, caller, parked, call, loc, closed, result, error >>
        \/ /\ log' = Append(log, LogEntry("Write", params, src, 0,
                                          Exception(OperatorFault, None)))
           /\ F_Raise(Exception(OperatorFault, None))

F_WriteVV ==
    /\ call.kind = "full_processor_intensity" /\ pc = "f_write_vv"
    /\ F_Write(vv_output_path, loc.vv_name, "f_write_vh")

F_WriteVH ==
    /\ call.kind = "full_processor_intensity" /\ pc = "f_write_vh"
    /\ F_Write(vh_output_path, loc.vh_name, "f_cleanup")

\* close() was called on the first n products of products_to_close
CloseFirst(n) ==
    [ h \in (DOMAIN closed) \cup { loc.products_to_close[i] : i \in 1..n } |->
        ReleaseCount(h)
        + Cardinality({ i \in 1..n : loc.products_to_close[i] = h }) ]

\* for p in products_to_close: p.close(), and the return of both paths.
\* Either every close returns, or the close of some product raises and the
\* exception leaves the loop and the function.
F_Cleanup ==
    /\ call.kind = "full_processor_intensity" /\ pc = "f_cleanup"
    /\ \/ /\ closed' = CloseFirst(Len(loc.products_to_close))
          /\ pc' = "done"
          /\ result' = << vv_output_path, vh_output_path >>
          /\ error' = error
       \/ \E n \in 1..Len(loc.products_to_close) :
             /\ closed' = CloseFirst(n)
             /\ Raise(Exception(IOFault, None))
    /\ UNCHANGED << config, caller, parked, fs, call, loc, nextHandle, log >>

LegacyInit ==
    \E input \in InputPaths :
        \E f \in FileSystems({ input, OutputDir }) :
            Start(f, [NoCaller EXCEPT !.program = "full_processor",
                                      !.args = << input, OutputDir >>])

LegacyNext ==
    \/ F_Call \/ F_ExtractDate \/ F_Read \/ F_CreateProduct \/ F_ResolveBands
    \/ F_WriteVV \/ F_WriteVH \/ F_Cleanup

LegacySpec == LegacyInit /\ [][LegacyNext]_vars

(***************************************************************************)
(* Two intensity runs in two threads of one host process                   *)
(* Each thread has its own call, position, locals and outcome; the         *)
(* filesystem, the engine and the read-only config are the process's.  One *)
(* thread runs, the other is parked; the host may switch between them      *)
(* before any step.                                                        *)
(***************************************************************************)
\* preemptions of a running thread the host makes
MaxSwitches == 2

\* pairs of different scenes the two runs are given: two acquisition dates,
\* and two slices of one pass
ScenePairs == { << PreEventZip, PostEventZip >>, << PreEventZip, AdjacentSliceZip >> }

\* the thread that is running
Running ==
    [ call |-> call, pc |-> pc, loc |-> loc, result |-> result, error |-> error ]

ThreadEnded(t) == t.pc \in { "done", "failed" }

\* the host starts both runs: generate_intensity_maps(scene, output_dir)
\* with arguments passed by position
Threads_Start ==
    /\ caller.program = "threads" /\ pc = "idle" /\ parked.pc = "idle"
    /\ call' = MakeCall("intensity", << caller.args[1], caller.args[3] >>, 2)
    /\ pc' = "validate_file_exists"
    /\ parked' = [ NoThread EXCEPT
                     !.call = MakeCall("intensity", << caller.args[2], caller.args[3] >>, 2),
                     !.pc   = "validate_file_exists" ]
    /\ UNCHANGED << config, caller, fs, loc, nextHandle, closed, log, result, error >>

\* the parked thread runs on: the running thread has ended, or the host
\* preempts it
Threads_Switch ==
    /\ caller.program = "threads" /\ pc # "idle"
    /\ ~ThreadEnded(parked)
    /\ Ended \/ caller.switches < MaxSwitches
    /\ caller' = [caller EXCEPT !.switches = IF Ended THEN @ ELSE @ + 1]
    /\ parked' = Running
    /\ call' = parked.call
    /\ pc' = parked.pc
    /\ loc' = parked.loc
    /\ result' = parked.result
    /\ error' = parked.error
    /\ UNCHANGED << config, fs, nextHandle, closed, log >>

ThreadsInit ==
    \E pair \in ScenePairs :
        \E f \in FileSystems({ pair[1], pair[2], OutputDir }) :
            Start(f, [NoCaller EXCEPT !.program = "threads",
                                      !.args = << pair[1], pair[2], OutputDir >>])

ThreadsNext ==
    \/ Threads_Start \/ Threads_Switch
    \/ ValidateFileExists \/ ValidateOutputDir \/ IntensitySample

ThreadsSpec == ThreadsInit /\ [][ThreadsNext]_vars

(***************************************************************************)
(* extract_date called on its own                                          *)
(* The identifiers are file names made of tokens joined by "_", the way    *)
(* Sentinel-1 product names are.                                           *)
(***************************************************************************)
Tok_S1A == << "S", "1", "A" >>
Tok_20240720T004052 == << "2","0","2","4","0","7","2","0","T","0","0","4","0","5","2" >>
Tok_20240801T004052 == << "2","0","2","4","0","8","0","1","T","0","0","4","0","5","2" >>
Tok_19991231T235959 == << "1","9","9","9","1","2","3","1","T","2","3","5","9","5","9" >>
Tok_20240230T004052 == << "2","0","2","4","0","2","3","0","T","0","0","4","0","5","2" >>
Tok_20240720 == << "2","0","2","4","0","7","2","0" >>
Tok_2024072T1 == << "2","0","2","4","0","7","2","T","1" >>
Tok_202407_5T004052 == << "2","0","2","4","0","7"," ","5","T","0","0","4","0","5","2" >>
Tok_20241315T0 == << "2","0","2","4","1","3","1","5","T","0" >>
Tok_20240721T == << "2","0","2","4","0","7","2","1","T" >>

\* tokens of a file name
DateTokens ==
    { Tok_S1A, Tok_20240720T004052, Tok_20240801T004052, Tok_19991231T235959,
      Tok_20240230T004052, Tok_20240720, Tok_2024072T1, Tok_202407_5T004052,
      Tok_20241315T0, Tok_20240721T }

\* most tokens of a generated identifier
MaxTokens == 2

\* the identifiers extract_date is called with
Identifiers ==
    { JoinWith(<< "_" >>, toks) :
        toks \in UNION { [1..n -> DateTokens] : n \in 1..MaxTokens } }
    \cup InputPaths

\* a caller invokes extract_date(zip_path)
CallExtractDate ==
    /\ pc = "idle"
    /\ \E zip_path \in Identifiers :
          call' = [kind |-> "extract_date", args |-> << zip_path >>, kwargs |-> << >>]
    /\ pc' = "extract_date"
    /\ UNCHANGED << config, caller, parked, fs, loc, nextHandle, closed, log, result, error >>

\* extract_date returns the formatted date or raises ValueError
ExtractDate ==
    /\ call.kind = "extract_date" /\ pc = "extract_date"
    /\ IF extract_date(call.args[1]) = None
       THEN Raise(Exception("ValueError", call.args[1]))
       ELSE /\ result' = << extract_date(call.args[1]) >>
            /\ pc' = "done"
            /\ error' = error
    /\ UNCHANGED << config, caller, parked, fs, call, loc, nextHandle, closed, log >>

DateInit ==
    /\ Init
    /\ fs = << >>

DateNext == CallExtractDate \/ ExtractDate

DateSpec == DateInit /\ [][DateNext]_vars

(***************************************************************************)
(* extract_date called with paths that have directory components           *)
(***************************************************************************)
\* what precedes the file name in a path: nothing, plain directories, and
\* directories whose names hold tokens of the shape of a date
Directories ==
    { << >>,
      << "/" >>,
      << "d", "/" >>,
      Tok_20240801T004052 \o << "/" >>,
      << "d", "_" >> \o Tok_20240801T004052 \o << "/" >>,
      Tok_20240801T004052 \o << "_", "d", "/" >>,
      << "/", "d", "/" >> \o Tok_202407_5T004052 \o << "/", "x", "_" >>
          \o Tok_19991231T235959 \o << "/" >> }

\* final components: each token alone, a name of two tokens, the input
\* names, and none (a path that ends in "/")
FileNames ==
    DateTokens \cup InputPaths
    \cup { << >>, Tok_S1A \o << "_" >> \o Tok_20240720T004052 }

PathIdentifiers == { dir \o name : dir \in Directories, name \in FileNames }

\* a caller invokes extract_date(zip_path) with a path
CallExtractDateOnPath ==
    /\ pc = "idle"
    /\ \E zip_path \in PathIdentifiers :
          call' = [kind |-> "extract_date", args |-> << zip_path >>, kwargs |-> << >>]
    /\ pc' = "extract_date"
    /\ UNCHANGED << config, caller, parked, fs, loc, nextHandle, closed, log, result, error >>

PathNext == CallExtractDateOnPath \/ ExtractDate

PathSpec == DateInit /\ [][PathNext]_vars

(***************************************************************************)
(* DEMProcessor._calculate_slope_gdal (dem_processor.py)                   *)
(* GDAL is outside the program: each of its two calls may write its        *)
(* destination or not and may return a dataset, return None or raise.      *)
(***************************************************************************)
\* Path(p).stem: the final component without its last suffix; a leading or
\* a trailing "." starts no suffix
Stem(p) ==
    LET name == Basename(p)
        j == LastIndex(name, ".")
    IN IF 1 < j /\ j < Len(name) THEN SubSeq(name, 1, j - 1) ELSE name

\* output_dir / f"slope_{dem_file.stem}.tif"
slope_out_path(dem_file, output_dir) ==
    PathJoin(output_dir, << "s","l","o","p","e","_" >> \o Stem(dem_file) \o SufTif)

\* output_dir / f"temp_utm_{dem_file.stem}.tif"
temp_dem_path(dem_file, output_dir) ==
    PathJoin(output_dir,
             << "t","e","m","p","_","u","t","m","_" >> \o Stem(dem_file) \o SufTif)

\* the DEM files the slope is asked for
DemFiles ==
    { << "d","e","m",".","t","i","f" >>,
      << "d","/","a",".","b",".","t","i","f" >>,
      << ".","d","e","m" >> }

\* the filesystems a slope call starts on: at each path a call may use for
\* its temporary file there is nothing, a file left there, or a directory
SlopeFileSystems ==
    LET temps == { temp_dem_path(d, OutputDir) : d \in DemFiles }
    IN UNION { [present -> { "file", "dir" }] : present \in SUBSET temps }

\* the locals of _calculate_slope_gdal
SlopeLoc(slope_out, temp_dem) == [slope_out |-> slope_out, temp_dem |-> temp_dem]

\* a caller invokes _calculate_slope_gdal(dem_file, output_dir); the body
\* sets slope_out and temp_dem = None and enters the try
CallSlopeGdal ==
    /\ pc = "idle"
    /\ \E dem_file \in DemFiles :
          /\ call' = [kind |-> "slope_gdal", args |-> << dem_file, OutputDir >>,
                      kwargs |-> << >>]
          /\ loc' = SlopeLoc(slope_out_path(dem_file, OutputDir), None)
    /\ pc' = "slope_temp"
    /\ UNCHANGED << config, caller, parked, fs, nextHandle, closed, log, result, error >>

\* temp_dem = output_dir / f"temp_utm_{dem_file.stem}.tif"
Slope_TempPath ==
    /\ pc = "slope_temp"
    /\ loc' = [loc EXCEPT !.temp_dem = temp_dem_path(call.args[1], call.args[2])]
    /\ pc' = "slope_warp"
    /\ UNCHANGED << config, caller, parked, fs, call, nextHandle, closed, log, result, error >>

\* a GDAL call on (dst, src): it writes dst when wrote, returns a dataset
\* (out = 1) or None (out = 0), or raises
GdalCall(opname, dst, src, wrote, out, raised, nextpc) ==
    /\ fs' = IF wrote THEN SetPath(fs, dst, "file") ELSE fs
    /\ log' = Append(log, LogEntry(opname, << dst, src >>, 0, out,
                                    IF raised THEN Exception("RuntimeError", None)
                                    ELSE NoError))
    /\ error' = IF raised THEN Exception("RuntimeError", None) ELSE error
    /\ pc' = IF raised THEN "slope_except" ELSE nextpc
    /\ UNCHANGED << config, caller, parked, call, loc, nextHandle, closed, result >>

\* gdal.Warp(str(temp_dem), str(dem_file), dstSRS=..., format='GTiff')
Slope_Warp ==
    /\ pc = "slope_warp"
    /\ \E wrote \in BOOLEAN, raised \in BOOLEAN, out \in 0..1 :
          \* a directory in the place of the file cannot be written
          /\ wrote => ~(Exists(fs, loc.temp_dem) /\ fs[loc.temp_dem] = "dir")
          \* a dataset is returned for a file that was written, by a call
          \* that does not raise
          /\ out = 1 => wrote /\ ~raised
          /\ GdalCall("gdal.Warp", loc.temp_dem, call.args[1], wrote, out, raised,
                      "slope_demprocessing")

\* gdal.DEMProcessing(str(slope_out), str(temp_dem), 'slope', ...)
Slope_DEMProcessing ==
    /\ pc = "slope_demprocessing"
    /\ \E wrote \in BOOLEAN, raised \in BOOLEAN, out \in 0..1 :
          \* the slope is computed from a source that is there
          /\ out = 1 => /\ wrote /\ ~raised
                        /\ Exists(fs, loc.temp_dem) /\ fs[loc.temp_dem] = "file"
          /\ GdalCall("gdal.DEMProcessing", loc.slope_out, loc.temp_dem, wrote, out,
                      raised, "slope_return")

\* return slope_out: the value is kept while the finally clause runs
Slope_Return ==
    /\ pc = "slope_return"
    /\ result' = << loc.slope_out >>
    /\ pc' = "slope_finally"
    /\ UNCHANGED << config, caller, parked, fs, call, loc, nextHandle, closed, log, error >>

\* except Exception as e: logger.error(...); raise
Slope_Except ==
    /\ pc = "slope_except"
    /\ pc' = "slope_finally"
    /\ UNCHANGED << config, caller, parked, fs, call, loc, nextHandle, closed, log,
                    result, error >>

\* a finally clause that cleans up after a success alone
Slope_FinallyOnSuccess ==
    /\ pc = "slope_finally"
    /\ fs' = IF error = NoError /\ Exists(fs, loc.temp_dem)
             THEN [q \in DOMAIN fs \ { loc.temp_dem } |-> fs[q]] ELSE fs
    /\ pc' = IF error = NoError THEN "done" ELSE "failed"
    /\ UNCHANGED << config, caller, parked, call, loc, nextHandle, closed, log,
                    result, error >>

\* finally: if temp_dem and temp_dem.exists(): temp_dem.unlink(); then the
\* pending return or raise takes place.  unlink() of a directory raises, and
\* that exception is the one the call ends with
Slope_Finally ==
    /\ pc = "slope_finally"
    /\ IF loc.temp_dem # None /\ Exists(fs, loc.temp_dem)
       THEN IF fs[loc.temp_dem] = "file"
            THEN /\ fs' = [q \in DOMAIN fs \ { loc.temp_dem } |-> fs[q]]
                 /\ pc' = IF error = NoError THEN "done" ELSE "failed"
                 /\ UNCHANGED << result, error >>
            ELSE /\ Raise(Exception("OSError", loc.temp_dem))
                 /\ UNCHANGED fs
       ELSE /\ pc' = IF error = NoError THEN "done" ELSE "failed"
            /\ UNCHANGED << fs, result, error >>
    /\ UNCHANGED << config, caller, parked, call, loc, nextHandle, closed, log >>

SlopeInit == \E f \in SlopeFileSystems : Start(f, NoCaller)

SlopeNext ==
    \/ CallSlopeGdal \/ Slope_TempPath \/ Slope_Warp \/ Slope_DEMProcessing
    \/ Slope_Return \/ Slope_Except \/ Slope_Finally

SlopeSpec == SlopeInit /\ [][SlopeNext]_vars


(***************************************************************************)
(* Vocabulary of the properties                                            *)
(***************************************************************************)
\* product handles the engine handed out to the run
Obtained == 1..nextHandle

\* the last engine call raised and it was a GPF.createProduct stage
TransformFailed ==
    /\ log # << >>
    /\ log[Len(log)].raised # NoError
    /\ log[Len(log)].op \notin { "readProduct", "writeProduct" }

\* the values the call passes, positionally or by keyword
Arguments ==
    { call.args[i] : i \in 1..Len(call.args) }
    \cup { call.kwargs[n] : n \in DOMAIN call.kwargs }

\* an argument with an input-file suffix names no existing path
SourceMissing ==
    \E a \in Arguments :
        (EndsWith(a, SufZip) \/ EndsWith(a, SufTif)) /\ ~Exists(fs, a)

(***************************************************************************)
(* C1: every product handle a run obtained from the engine is released     *)
(* exactly once by the time the run returns or raises.                     *)
(* The processors never release a handle: the statement is violated by     *)
(* every run that obtained one.                                            *)
(***************************************************************************)
C1_ReleasedExactlyOnce ==
    Ended => \A h \in Obtained : ReleaseCount(h) = 1

(***************************************************************************)
(* C2: when a transform stage fails, the caller sees a PipelineStageError  *)
(* that carries the name of the failing stage and the original cause, and  *)
(* everything obtained so far has been released by then.                   *)
(* The except clause re-raises the engine's exception as it is and         *)
(* releases nothing.                                                       *)
(***************************************************************************)
C2_StageErrorWrappedAfterCleanup ==
    (pc = "failed" /\ TransformFailed) =>
        /\ error.type = "PipelineStageError"
        /\ error.arg = [stage |-> log[Len(log)].op, cause |-> log[Len(log)].raised]
        /\ \A h \in Obtained : ReleaseCount(h) >= 1

(***************************************************************************)
(* C3: once a stage of a run has failed no later stage runs: the failed    *)
(* engine call is the last one made, the run is in the failed state with   *)
(* the error of the stage propagated to the caller and no output path      *)
(* returned, and from then on no engine call is made and nothing changes.  *)
(***************************************************************************)
C3_FailedStageIsLast ==
    /\ \A i \in 1..Len(log) :
          log[i].raised # NoError =>
              /\ i = Len(log)
              /\ pc = "failed"
              /\ error = log[i].raised
              /\ result = NoResult
    /\ (error # NoError => pc = "failed" /\ result = NoResult)
    /\ (pc = "failed" => error # NoError)

C3_FailureAborts ==
    /\ []C3_FailedStageIsLast
    /\ [][error # NoError => UNCHANGED vars]_vars

\* a run that failed in its fourth engine call
C3_Witness ==
    /\ pc = "failed"
    /\ Len(log) = 4
    /\ log[4].raised # NoError


(***************************************************************************)
(* C4: an intensity run makes its engine calls in the order Read, Split,   *)
(* OrbitCorrect, ThermalNoiseRemove, Calibrate, Deburst, SpeckleFilter,    *)
(* TerrainCorrect, then (bands resolved) select and write VV, select and   *)
(* write VH: a call is made only after the one before it returned, each    *)
(* transform takes the output of the one before it, both selections take   *)
(* the TerrainCorrect output, and a run that returns made all of them.     *)
(***************************************************************************)
IntensityOps ==
    << "readProduct", "TOPSAR-Split", "Apply-Orbit-File", "ThermalNoiseRemoval",
       "Calibration", "TOPSAR-Deburst", "Speckle-Filter", "Terrain-Correction",
       "BandSelect", "writeProduct", "BandSelect", "writeProduct" >>

C4_IntensityOrder ==
    call.kind = "intensity" =>
        /\ Len(log) <= Len(IntensityOps)
        /\ \A i \in 1..Len(log) :
              /\ log[i].op = IntensityOps[i]
              /\ i < Len(log) => log[i].raised = NoError
              /\ i \in 2..8 => log[i].src.product = log[i - 1].out
              /\ i \in { 9, 11 } => log[i].src.product = log[8].out
              /\ i \in { 10, 12 } => log[i].src.product = log[i - 1].out
              /\ i = 9 => log[i].params.sourceBands = << loc.vv_name >>
              /\ i = 11 => log[i].params.sourceBands = << loc.vh_name >>
              /\ i = 10 => EndsWith(log[i].params.path, VvTif)
              /\ i = 12 => EndsWith(log[i].params.path, VhTif)
        /\ (Len(log) >= 9 => loc.vv_name # None /\ loc.vh_name # None)
        /\ (Len(log) < 8 => loc.vv_name = None /\ loc.vh_name = None)
        /\ (pc = "done" =>
               Len(log) = Len(IntensityOps) /\ log[Len(log)].raised = NoError)

\* an intensity run that returned
C4_Witness ==
    /\ call.kind = "intensity"
    /\ pc = "done"
    /\ Len(result) = 2

(***************************************************************************)
(* C5: a coherence run reads both scenes, then splits both, then corrects  *)
(* the orbit of both; Back-Geocoding starts after both orbit corrections   *)
(* and takes their outputs; Interferogram, BandSelect (on the resolved     *)
(* band), Deburst, TerrainCorrect and the write follow in that order, each *)
(* on the output of the one before, and the product written is the         *)
(* TerrainCorrect output.                                                  *)
(***************************************************************************)
CoherenceOps ==
    << "readProduct", "readProduct", "TOPSAR-Split", "TOPSAR-Split",
       "Apply-Orbit-File", "Apply-Orbit-File", "Back-Geocoding", "Interferogram",
       "BandSelect", "TOPSAR-Deburst", "Terrain-Correction", "writeProduct" >>

C5_CoherenceOrder ==
    call.kind = "coherence" =>
        /\ Len(log) <= Len(CoherenceOps)
        /\ \A i \in 1..Len(log) :
              /\ log[i].op = CoherenceOps[i]
              /\ i < Len(log) => log[i].raised = NoError
              /\ i = 1 => log[i].params.path = Bound(call, 1)
              /\ i = 2 => log[i].params.path = Bound(call, 2)
              /\ i \in 3..6 => log[i].src.product = log[i - 2].out
              /\ i = 7 => log[i].src = [Master |-> log[5].out, Slave |-> log[6].out]
              /\ i \in 8..12 => log[i].src.product = log[i - 1].out
              /\ i = 9 => log[i].params.sourceBands = << loc.coherence_band_name >>
        /\ (Len(log) >= 9 => loc.coherence_band_name # None)
        /\ (Len(log) < 8 => loc.coherence_band_name = None)
        /\ (pc = "done" =>
               /\ Len(log) = Len(CoherenceOps)
               /\ log[12].raised = NoError
               /\ log[12].src.product = log[11].out
               /\ log[11].op = "Terrain-Correction")

\* a coherence run that returned
C5_Witness ==
    /\ call.kind = "coherence"
    /\ pc = "done"
    /\ Len(result) = 1

(***************************************************************************)
(* C6: a call in which an argument with an input-file suffix names no      *)
(* existing path ends with FileNotFoundError and makes no engine call.     *)
(* The decorator loops over the positional arguments only: a path passed   *)
(* by keyword is not looked at and the body runs.                          *)
(***************************************************************************)
C6_MissingSourceRejected ==
    (Ended /\ SourceMissing) =>
        /\ error.type = "FileNotFoundError"
        /\ log = << >>


(***************************************************************************)
(* Vocabulary of the band properties: the rules as the specification       *)
(* words them, over a band name                                            *)
(***************************************************************************)
NameHas(sub, name) == Contains(sub, Lower(name))

SaysVV(name) ==
    NameHas(Str_vv, name) /\ (NameHas(Str_beta0, name) \/ NameHas(Str_intensity, name))

SaysVH(name) ==
    NameHas(Str_vh, name) /\ (NameHas(Str_beta0, name) \/ NameHas(Str_intensity, name))

SaysCoh(name) == NameHas(Str_coh, name)

\* the intensity run has read the band catalog and searched it
IResolved ==
    /\ call.kind = "intensity"
    /\ Len(log) >= 8
    /\ log[8].raised = NoError
    /\ pc # "i_bands"

\* the coherence run has read the band catalog and searched it
CResolved ==
    /\ call.kind = "coherence"
    /\ Len(log) >= 8
    /\ log[8].raised = NoError
    /\ pc # "c_bands"


(***************************************************************************)
(* C7 as stated: a band name is a VV candidate iff it contains "vv" and    *)
(* "beta0" or "intensity", and a VH candidate iff it contains "vh" and     *)
(* "beta0" or "intensity", case-insensitively; a role is filled exactly    *)
(* when the catalog holds a candidate for it.                              *)
(***************************************************************************)
C7_SymmetricRule ==
    IResolved =>
        /\ loc.vv_name # None <=>
              \E i \in 1..Len(loc.all_band_names) : SaysVV(loc.all_band_names[i])
        /\ loc.vh_name # None <=>
              \E i \in 1..Len(loc.all_band_names) : SaysVH(loc.all_band_names[i])
        /\ loc.all_band_names = ExampleIntensityCatalog =>
              loc.vv_name = Beta0_VV /\ loc.vh_name = Beta0_VH

(***************************************************************************)
(* C7 as amended: the VH rule applies only to names that are not VV        *)
(* candidates.  A name is a VV candidate iff it contains "vv" and "beta0"  *)
(* or "intensity"; it is a VH candidate iff it contains "vh" and "beta0"   *)
(* or "intensity" and is not a VV candidate.  A role is filled exactly     *)
(* when the catalog holds a candidate for it, by a candidate for it, and   *)
(* the catalog [Beta0_VV, Beta0_VH, Intensity_HH] resolves to Beta0_VV and *)
(* Beta0_VH.                                                               *)
(***************************************************************************)
C7_VVTakesPrecedence ==
    IResolved =>
        /\ loc.vv_name # None <=>
              \E i \in 1..Len(loc.all_band_names) : SaysVV(loc.all_band_names[i])
        /\ loc.vh_name # None <=>
              \E i \in 1..Len(loc.all_band_names) :
                  SaysVH(loc.all_band_names[i]) /\ ~SaysVV(loc.all_band_names[i])
        /\ loc.vv_name # None => SaysVV(loc.vv_name)
        /\ loc.vh_name # None => SaysVH(loc.vh_name) /\ ~SaysVV(loc.vh_name)
        /\ loc.all_band_names = ExampleIntensityCatalog =>
              loc.vv_name = Beta0_VV /\ loc.vh_name = Beta0_VH

\* the example catalog was resolved
C7_Witness ==
    /\ IResolved
    /\ loc.all_band_names = ExampleIntensityCatalog
    /\ loc.vv_name = Beta0_VV
    /\ loc.vh_name = Beta0_VH

(***************************************************************************)
(* C8: intensity resolution selects, for each polarization, the first band *)
(* of the catalog that matches it.                                         *)
(* The loop has no break: every later match overwrites the selection, so   *)
(* the last matching band is selected.                                     *)
(***************************************************************************)
FirstVVBand(names) ==
    IF \E i \in 1..Len(names) : SaysVV(names[i])
    THEN names[CHOOSE i \in 1..Len(names) :
                  SaysVV(names[i]) /\ \A j \in 1..(i - 1) : ~SaysVV(names[j])]
    ELSE None

FirstVHBand(names) ==
    IF \E i \in 1..Len(names) : SaysVH(names[i]) /\ ~SaysVV(names[i])
    THEN names[CHOOSE i \in 1..Len(names) :
                  /\ SaysVH(names[i]) /\ ~SaysVV(names[i])
                  /\ \A j \in 1..(i - 1) : ~(SaysVH(names[j]) /\ ~SaysVV(names[j]))]
    ELSE None

C8_FirstMatchSelected ==
    IResolved =>
        /\ loc.vv_name = FirstVVBand(loc.all_band_names)
        /\ loc.vh_name = FirstVHBand(loc.all_band_names)

(***************************************************************************)
(* C9: when the catalog read after Terrain-Correction does not fill both   *)
(* the VV and the VH role, the intensity run fails with the RuntimeError   *)
(* of the band check, makes no BandSelect and no write, creates no file    *)
(* and returns nothing: no run selects or writes one polarization alone.   *)
(***************************************************************************)
C9_NoPartialResult ==
    ( /\ IResolved
      /\ \/ ~\E i \in 1..Len(loc.all_band_names) : SaysVV(loc.all_band_names[i])
         \/ ~\E i \in 1..Len(loc.all_band_names) :
                SaysVH(loc.all_band_names[i]) /\ ~SaysVV(loc.all_band_names[i]) )
    =>
        /\ pc = "failed"
        /\ error = Exception("RuntimeError", loc.all_band_names)
        /\ Len(log) = 8
        /\ result = NoResult
        /\ \A p \in DOMAIN fs : fs[p] = "file" => p \in InputPaths

\* the catalog [Beta0_HH] was read and the run failed
C9_Witness ==
    /\ IResolved
    /\ loc.all_band_names = << Beta0_HH >>
    /\ pc = "failed"

(***************************************************************************)
(* C10: a band is a coherence candidate iff its name contains "coh",       *)
(* case-insensitively; the first candidate of the catalog is selected and  *)
(* is the band BandSelect is given ([i_VV, q_VV, coh_VV] gives coh_VV);    *)
(* with no candidate the run fails with the RuntimeError of the band check *)
(* and makes no BandSelect, Deburst, Terrain-Correction or write.          *)
(***************************************************************************)
FirstCohBand(names) ==
    IF \E i \in 1..Len(names) : SaysCoh(names[i])
    THEN names[CHOOSE i \in 1..Len(names) :
                  SaysCoh(names[i]) /\ \A j \in 1..(i - 1) : ~SaysCoh(names[j])]
    ELSE None

C10_FirstCoherenceBand ==
    CResolved =>
        /\ loc.coherence_band_name = FirstCohBand(loc.all_band_names)
        /\ loc.coherence_band_name # None =>
              /\ pc # "failed" \/ Len(log) >= 9
              /\ Len(log) >= 9 =>
                    /\ log[9].op = "BandSelect"
                    /\ log[9].params.sourceBands = << FirstCohBand(loc.all_band_names) >>
        /\ loc.coherence_band_name = None =>
              /\ pc = "failed"
              /\ error.type = "RuntimeError"
              /\ Len(log) = 8
              /\ result = NoResult
        /\ loc.all_band_names = ExampleCoherenceCatalog =>
              loc.coherence_band_name = coh_VV

\* the example catalog was resolved and its band handed to BandSelect
C10_Witness ==
    /\ CResolved
    /\ loc.all_band_names = ExampleCoherenceCatalog
    /\ Len(log) >= 9
    /\ log[9].params.sourceBands = << coh_VV >>

(***************************************************************************)
(* Vocabulary of the date properties: tokens and calendar dates as the     *)
(* specification words them                                                *)
(***************************************************************************)
\* the tokens of an identifier
Tokens(identifier) == Split(Basename(identifier), "_")

\* the number written by the digits t[a..b]
RECURSIVE Number(_, _, _)
Number(t, a, b) ==
    IF b < a THEN 0 ELSE 10 * Number(t, a, b - 1) + DigitVal(t[b])

\* t has the shape {8 digits}T... and the digits are a date of the calendar
IsDateToken(t) ==
    /\ Len(t) >= 9
    /\ \A i \in 1..8 : IsDigit(t[i])
    /\ t[9] = "T"
    /\ Number(t, 1, 4) >= 1
    /\ Number(t, 5, 6) \in 1..12
    /\ Number(t, 7, 8) \in 1..DaysInMonth(Number(t, 1, 4), Number(t, 5, 6))

\* the date of a date token, written YYYY-MM-DD
DateOfToken(t) ==
    SubSeq(t, 1, 4) \o << "-" >> \o SubSeq(t, 5, 6) \o << "-" >> \o SubSeq(t, 7, 8)

\* t has the shape the scan looks for: length at least 9, first character
\* "2", contains "T"
HasShape(t) ==
    Len(t) >= 9 /\ t[1] = "2" /\ \E i \in 1..Len(t) : t[i] = "T"

\* the first 8 characters of t are the digits YYYYMMDD of a calendar date
StartsWithCalendarDate(t) ==
    /\ Len(t) >= 8
    /\ \A i \in 1..8 : IsDigit(t[i])
    /\ Number(t, 1, 4) >= 1
    /\ Number(t, 5, 6) \in 1..12
    /\ Number(t, 7, 8) \in 1..DaysInMonth(Number(t, 1, 4), Number(t, 5, 6))

\* extract_date was called on its own and has returned or raised
Extracted == call.kind = "extract_date" /\ Ended

Date_2024_07_20 == << "2","0","2","4","-","0","7","-","2","0" >>

C12_NoDateTokenFails ==
    ( /\ Extracted
      /\ \A i \in 1..Len(Tokens(call.args[1])) :
            ~(HasShape(Tokens(call.args[1])[i])
              /\ StartsWithCalendarDate(Tokens(call.args[1])[i])) )
    =>
        /\ pc = "failed"
        /\ error.type = "ValueError"
        /\ result = NoResult

(***************************************************************************)
(* C13: in both pipelines the dates of all input identifiers are extracted *)
(* before the first engine call.  Once an engine call has been made every  *)
(* date is known; a run with an identifier that yields no date makes no    *)
(* engine call at all, ends failed and returns nothing, and when the body  *)
(* was entered the error is the ValueError of extract_date.                *)
(***************************************************************************)
\* the identifiers the run in progress extracts a date from
InputIdentifiers ==
    IF call.kind = "intensity" THEN { Bound(call, 1) }
    ELSE IF call.kind = "coherence" THEN { Bound(call, 1), Bound(call, 2) }
    ELSE { }

\* the body of the pipeline was entered: both decorators let the call pass
BodyEntered ==
    pc \notin { "idle", "validate_file_exists", "validate_output_dir" }
    /\ error.type \notin { "FileNotFoundError", "FileExistsError" }

C13_DatesBeforeEngine ==
    call.kind \in { "intensity", "coherence" } =>
        /\ log # << >> =>
              /\ \A id \in InputIdentifiers : extract_date(id) # None
              /\ loc.date_str = extract_date(Bound(call, 1))
              /\ call.kind = "coherence" => loc.date2_str = extract_date(Bound(call, 2))
        /\ (\E id \in InputIdentifiers : extract_date(id) = None) =>
              /\ log = << >>
              /\ nextHandle = 0
              /\ pc # "done"
              /\ result = NoResult
              /\ (BodyEntered /\ pc # "extract_date") =>
                    pc = "failed" /\ error.type = "ValueError"

\* a coherence run whose master has a date and whose slave has none failed
\* in the body
C13_Witness ==
    /\ call.kind = "coherence"
    /\ extract_date(Bound(call, 1)) # None
    /\ extract_date(Bound(call, 2)) = None
    /\ pc = "failed"
    /\ error = Exception("ValueError", Bound(call, 2))
    /\ log = << >>

(***************************************************************************)
(* C14: a successful intensity run returns the pair                        *)
(* (dir/{date}_vv.tif, dir/{date}_vh.tif), in that order, and a successful *)
(* coherence run returns dir/{masterDate}_{slaveDate}_coherence.tif, where *)
(* dir is the output directory of the call and each date is extract_date   *)
(* of the corresponding input; the paths returned are the paths given to   *)
(* writeProduct.  The scenes of 20240720T004052 and 20240801T004052 give   *)
(* 2024-07-20_2024-08-01_coherence.tif, 2024-07-20_vv.tif and              *)
(* 2024-07-20_vh.tif.                                                      *)
(***************************************************************************)
Name_vv == << "2","0","2","4","-","0","7","-","2","0","_","v","v",".","t","i","f" >>
Name_vh == << "2","0","2","4","-","0","7","-","2","0","_","v","h",".","t","i","f" >>
Name_coherence ==
    << "2","0","2","4","-","0","7","-","2","0","_",
       "2","0","2","4","-","0","8","-","0","1","_",
       "c","o","h","e","r","e","n","c","e",".","t","i","f" >>

\* path is the file called name inside directory dir
Inside(path, dir, name) == path = dir \o << "/" >> \o name

C14_ReturnedPaths ==
    /\ (call.kind = "intensity" /\ pc = "done") =>
          /\ Len(result) = 2
          /\ Inside(result[1], Bound(call, 2),
                    extract_date(Bound(call, 1)) \o << "_","v","v",".","t","i","f" >>)
          /\ Inside(result[2], Bound(call, 2),
                    extract_date(Bound(call, 1)) \o << "_","v","h",".","t","i","f" >>)
          /\ log[10].op = "writeProduct" /\ log[10].params.path = result[1]
          /\ log[12].op = "writeProduct" /\ log[12].params.path = result[2]
          /\ Bound(call, 1) = PreEventZip =>
                /\ Inside(result[1], Bound(call, 2), Name_vv)
                /\ Inside(result[2], Bound(call, 2), Name_vh)
    /\ (call.kind = "coherence" /\ pc = "done") =>
          /\ Len(result) = 1
          /\ Inside(result[1], Bound(call, 3),
                    extract_date(Bound(call, 1)) \o << "_" >>
                    \o extract_date(Bound(call, 2))
                    \o << "_","c","o","h","e","r","e","n","c","e",".","t","i","f" >>)
          /\ log[12].op = "writeProduct" /\ log[12].params.path = result[1]
          /\ (Bound(call, 1) = PreEventZip /\ Bound(call, 2) = PostEventZip) =>
                Inside(result[1], Bound(call, 3), Name_coherence)

\* the coherence run of the two example scenes returned
C14_Witness ==
    /\ call.kind = "coherence" /\ pc = "done"
    /\ Bound(call, 1) = PreEventZip /\ Bound(call, 2) = PostEventZip
    /\ Basename(result[1]) = Name_coherence

(***************************************************************************)
(* C15: calling generate_intensity_maps again with the same input path,    *)
(* the same output directory and the same configuration gives the same two *)
(* output file names: whenever two calls with the same arguments both      *)
(* return, they return the same pair of paths, and what an earlier call    *)
(* left behind (its output files, the directory it made, the handles it    *)
(* obtained) makes no later call fail in the guards or in the date.        *)
(***************************************************************************)
\* the call got past the guards and the date extraction
ReachedEngine(outcome) ==
    outcome.error \notin { "FileNotFoundError", "FileExistsError", "ValueError" }

C15_SameNamesOnRerun ==
    \A i \in 1..Len(caller.returned) : \A j \in (i + 1)..Len(caller.returned) :
        caller.returned[i].call = caller.returned[j].call =>
            /\ (caller.returned[i].error = "none" /\ caller.returned[j].error = "none") =>
                  /\ Len(caller.returned[i].result) = 2
                  /\ caller.returned[j].result = caller.returned[i].result
            /\ ReachedEngine(caller.returned[i]) => ReachedEngine(caller.returned[j])
            /\ config = ProcessingConfig

\* the same call returned twice, onto the files of the first run
C15_Witness ==
    /\ caller.program = "rerun"
    /\ Len(caller.returned) = 2
    /\ caller.returned[1].error = "none"
    /\ caller.returned[2].error = "none"
    /\ caller.returned[2].result = caller.returned[1].result
    /\ \A k \in 1..2 : Exists(fs, caller.returned[1].result[k])

(***************************************************************************)
(* C16: main exits with code 0 when the subcommand (test, process-all,     *)
(* intensity, coherence) went through without an error, and with code 1    *)
(* whenever a pipeline call raised: the call that raised is the last one   *)
(* main made, and no run in which a pipeline call raised exits with 0.     *)
(***************************************************************************)
\* a pipeline call of main raised
PipelineRaised ==
    \E i \in 1..Len(caller.returned) : caller.returned[i].error # "none"

C16_ExitCodes ==
    caller.program = "main" =>
        /\ caller.exited =>
              /\ caller.exit_code \in { 0, 1 }
              /\ PipelineRaised => caller.exit_code = 1
              /\ (~PipelineRaised /\ caller.error = "none") => caller.exit_code = 0
              /\ caller.exit_code = 1 => caller.error # "none"
              /\ pc = "idle"
        /\ \A i \in 1..Len(caller.returned) :
              caller.returned[i].error # "none" =>
                  i = Len(caller.returned) /\ caller.exited
        /\ pc = "failed" => ~caller.exited

\* process-all exited with 1 on its second call, the first having returned
C16_Witness ==
    /\ caller.program = "main"
    /\ caller.args.command = "process-all"
    /\ caller.exited /\ caller.exit_code = 1
    /\ Len(caller.returned) = 2
    /\ caller.returned[1].error = "none"
    /\ caller.returned[2].error # "none"

(***************************************************************************)
(* C17: the cleanup of full_processor.py                                   *)
(***************************************************************************)
\* the script's function reached its cleanup loop: both writes returned
LegacyCleanupRan ==
    /\ call.kind = "full_processor_intensity" /\ Ended
    /\ Len(log) = Len(LegacyStages) + 3
    /\ log[Len(log)].raised = NoError

\* C17: once the cleanup loop of full_processor.generate_intensity_maps has
\* run, close() was attempted on every product of products_to_close and the
\* loop did not raise, whichever close() raised.
C17_CleanupAttemptsAll ==
    LegacyCleanupRan =>
        /\ \A i \in 1..Len(loc.products_to_close) :
              ReleaseCount(loc.products_to_close[i]) >= 1
        /\ pc = "done"

(***************************************************************************)
(* C18: partial output of an intensity run                                 *)
(***************************************************************************)
\* the write of the VV raster returned
VVWritten ==
    /\ call.kind = "intensity"
    /\ \E i \in 1..Len(log) :
          /\ log[i].op = "writeProduct" /\ log[i].raised = NoError
          /\ log[i].params.path = vv_output_path

SameInvocation(i, j) ==
    /\ log[i].op = log[j].op
    /\ log[i].src = log[j].src
    /\ log[i].params = log[j].params

\* C20: within one run an engine call that raised is the last engine call
\* of the run, which has failed; and no operator is called twice on the same
\* source product with the same parameters (the two reads of a coherence
\* run given one file as master and as slave being the two input chains).
C20_NoRetry ==
    /\ \A i \in 1..Len(log) :
          /\ log[i].raised # NoError => (i = Len(log) /\ pc = "failed")
          /\ \A j \in (i + 1)..Len(log) :
                SameInvocation(i, j) =>
                    /\ log[i].op = "readProduct"
                    /\ call.kind = "coherence"
                    /\ i = 1 /\ j = 2
    /\ Cardinality({ i \in 1..Len(log) : log[i].op = "readProduct" })
           <= (IF call.kind = "coherence" THEN 2 ELSE 1)

\* a run failed at its fourth engine call or later, and made no call after
C20_Witness ==
    /\ pc = "failed"
    /\ Len(log) >= 4
    /\ log[Len(log)].raised # NoError

(***************************************************************************)
(* C19: two intensity runs in parallel                                     *)
(***************************************************************************)
\* the scene the product with handle h was derived from: the path of the
\* readProduct at the head of its chain of engine calls
RECURSIVE SceneOf(_)
SceneOf(h) ==
    LET i == CHOOSE k \in 1..Len(log) : log[k].out = h
    IN  IF log[i].op = "readProduct" THEN log[i].params.path
        ELSE SceneOf(log[i].src.product)

\* the scene of the run that made engine call i
SceneOfCall(i) ==
    IF log[i].op = "readProduct" THEN log[i].params.path
    ELSE SceneOf(log[i].src.product)

\* the scene of the run that wrote path p last
LastWriter(p) ==
    SceneOfCall(CHOOSE i \in 1..Len(log) :
                    /\ log[i].op = "writeProduct" /\ log[i].raised = NoError
                    /\ log[i].params.path = p
                    /\ \A j \in (i + 1)..Len(log) :
                          ~( /\ log[j].op = "writeProduct" /\ log[j].raised = NoError
                             /\ log[j].params.path = p ))

\* the locals of a body that hold product handles
HandleLocals ==
    { "product", "product_clean", "product_deburst", "product_final",
      "vv_product", "vh_product" }

\* C19: of two intensity runs over two different scenes that execute in
\* two threads, under any interleaving: every product a run holds was
\* derived from its own scene; no file is written by both runs; and when
\* both runs have returned, each run's two rasters are those of one run, as
\* they are when the runs execute one after the other.
C19_ParallelRunsIndependent ==
    caller.program = "threads" =>
        /\ \A t \in { Running, parked } : \A f \in HandleLocals :
              t.loc[f] # 0 => SceneOf(t.loc[f]) = t.call.args[1]
        /\ \A i, j \in 1..Len(log) :
              ( /\ log[i].op = "writeProduct" /\ log[i].raised = NoError
                /\ log[j].op = "writeProduct" /\ log[j].raised = NoError
                /\ SceneOfCall(i) # SceneOfCall(j) )
              => log[i].params.path # log[j].params.path
        /\ (pc = "done" /\ parked.pc = "done") =>
              \A t \in { Running, parked } :
                  LastWriter(t.result[1]) = LastWriter(t.result[2])

(***************************************************************************)
(* C21: the config is only read                                            *)
(***************************************************************************)
\* C21: no step of an intensity or coherence run, of a processor
\* constructed with any config, changes a field of the config: the config
\* after a run that returned or raised is the config before it.
C21_ConfigReadOnly == [][config' = config]_vars

\* a run of a processor with a config of the caller's has returned, its
\* engine calls made with the values of that config
C21_Witness ==
    /\ pc = "done"
    /\ config # ProcessingConfig
    /\ log[2].op = "TOPSAR-Split" /\ log[2].params.subswath = "IW1"
    /\ log[Len(log)].params.format = "NetCDF4-CF"

(***************************************************************************)
(* C22: the existence check comes before the directories are made          *)
(***************************************************************************)
\* C22: the existence check is the first step of a call and the step that
\* makes the directories follows it; the existence check changes nothing
\* on the filesystem; when a positional source file is missing the
\* existence check raises FileNotFoundError; and while a source file of the
\* call is missing no step creates anything, so a call that fails the
\* existence check has not created the output directory.
C22_ExistenceCheckFirst ==
    [][ /\ pc' = "validate_output_dir" => pc = "validate_file_exists"
        /\ pc = "validate_file_exists" =>
              /\ fs' = fs
              /\ FirstMissing(call.args, 1, fs) # None =>
                    pc' = "failed" /\ error'.type = "FileNotFoundError"
        /\ SourceMissing => fs' = fs ]_vars

\* a call given its source file and the output directory by position has
\* failed the existence check, and there is no output directory
C22_Witness ==
    /\ call.kind = "intensity" /\ Len(call.args) = 2
    /\ pc = "failed" /\ error.type = "FileNotFoundError"
    /\ ~Exists(fs, OutputDir)

(***************************************************************************)
(* C23: the directory guard ensures directories, idempotently              *)
(***************************************************************************)
\* the guard takes argument a for a directory path
IsDirectoryArgument(a) ==
    ~(EndsWith(a, SufZip) \/ EndsWith(a, SufTif) \/ EndsWith(a, SufNc))

\* the positional arguments of the call the guard takes for directories
DirectoryArguments ==
    { call.args[i] : i \in { k \in 1..Len(call.args) : IsDirectoryArgument(call.args[k]) } }

\* the call has passed the directory guard
GuardsPassed ==
    /\ call.kind \in { "intensity", "coherence" }
    /\ pc \notin { "idle", "validate_file_exists", "validate_output_dir" }
    /\ error.type # "FileNotFoundError"

\* C23: where none of the arguments it takes for directories names a file,
\* the directory guard does not raise; after it every such argument is a
\* directory and every path that existed is as it was; applied where these
\* are directories already it returns the filesystem it was given; applied
\* to its own result it returns that result; and so it is in the runs.
C23_EnsureDirectory ==
    LET once == MkdirLoop(call.args, 1, fs)
    IN  /\ (\A d \in DirectoryArguments : Exists(fs, d) => fs[d] = "dir")
               => once.raised = NoError
        /\ \A d \in DirectoryArguments : Exists(once.fs, d) /\ once.fs[d] = "dir"
        /\ \A p \in DOMAIN fs : Exists(once.fs, p) /\ once.fs[p] = fs[p]
        /\ (\A d \in DirectoryArguments : Exists(fs, d)) => once.fs = fs
        /\ MkdirLoop(call.args, 1, once.fs) = once
        /\ GuardsPassed =>
              /\ \A d \in DirectoryArguments : Exists(fs, d) /\ fs[d] = "dir"
              /\ once.fs = fs

\* the guard has run on a call that names its output directory by position
C23_Witness ==
    /\ GuardsPassed /\ log = << >> /\ pc = "extract_date"
    /\ OutputDir \in DirectoryArguments
    /\ Exists(fs, OutputDir)

(***************************************************************************)
(* C24: the scan of extract_date                                           *)
(***************************************************************************)
\* token t passes both tests: it has the shape and its first 8 characters
\* are the digits YYYYMMDD of a calendar date
PassesBothTests(t) == HasShape(t) /\ StartsWithCalendarDate(t)

\* C24: for an identifier with a token that passes both tests,
\* extract_date returns the date of the first such token: the tokens before
\* it, which fail a test, are skipped, and the tokens after it play no part.
C24_FirstPassingTokenDecides ==
    Extracted =>
        \A i \in 1..Len(Tokens(call.args[1])) :
            LET toks == Tokens(call.args[1])
            IN  ( /\ PassesBothTests(toks[i])
                  /\ \A j \in 1..(i - 1) : ~PassesBothTests(toks[j]) )
                => pc = "done" /\ result = << DateOfToken(toks[i]) >>

(***************************************************************************)
(* C25: the two input chains of a coherence run                            *)
(***************************************************************************)
\* the engine call that returned the product with handle h
MadeBy(h) == log[CHOOSE k \in 1..Len(log) : log[k].out = h]

\* the product with handle h is the Apply-Orbit-File output of the
\* TOPSAR-Split output of the product read from path
IsOrbitOfSplitOfRead(h, path) ==
    /\ h # 0
    /\ MadeBy(h).op = "Apply-Orbit-File"
    /\ MadeBy(MadeBy(h).src.product).op = "TOPSAR-Split"
    /\ MadeBy(MadeBy(MadeBy(h).src.product).src.product).op = "readProduct"
    /\ MadeBy(MadeBy(MadeBy(h).src.product).src.product).params.path = path

\* the handles of the chain that ends in h: h, its Split and its read
ChainHandles(h) ==
    { h, MadeBy(h).src.product, MadeBy(MadeBy(h).src.product).src.product }

\* C25: in every coherence run the product Back-Geocoding is given as
\* "Master" is the Apply-Orbit-File output of the TOPSAR-Split output of
\* the product read from the master path, the product given as "Slave" is
\* the same chain over the slave path, the operators of the two chains have
\* the same parameters, and no product is part of both chains.
C25_SubChainsIndependent ==
    \A k \in 1..Len(log) :
        (call.kind = "coherence" /\ log[k].op = "Back-Geocoding") =>
            LET m == log[k].src.Master
                s == log[k].src.Slave
            IN  /\ IsOrbitOfSplitOfRead(m, Bound(call, 1))
                /\ IsOrbitOfSplitOfRead(s, Bound(call, 2))
                /\ MadeBy(m).params = MadeBy(s).params
                /\ MadeBy(MadeBy(m).src.product).params
                       = MadeBy(MadeBy(s).src.product).params
                /\ ChainHandles(m) \cap ChainHandles(s) = {}
                /\ log[k].params = [demName |-> config.dem_name]

\* Back-Geocoding was called in a run over two different scenes
C25_Witness ==
    /\ call.kind = "coherence"
    /\ Bound(call, 1) # Bound(call, 2)
    /\ \E k \in 1..Len(log) : log[k].op = "Back-Geocoding" /\ log[k].raised = NoError

(***************************************************************************)
(* C26: the guards and keyword arguments                                   *)
(***************************************************************************)
\* the call passes all its arguments by keyword
KeywordOnly ==
    call.kind \in { "intensity", "coherence" } /\ call.args = << >>

\* C26: the existence check raises exactly when a positional argument with
\* a file suffix is missing, whatever the keyword arguments are; in a call
\* that passes its arguments by keyword neither guard raises or changes the
\* filesystem, so the call reaches the body, even when an input file does
\* not exist.
C26_GuardsSeePositionalOnly ==
    [][ /\ pc = "validate_file_exists" =>
              (pc' = "failed" <=> FirstMissing(call.args, 1, fs) # None)
        /\ (KeywordOnly /\ pc \in { "validate_file_exists", "validate_output_dir" }) =>
              /\ fs' = fs
              /\ error' = NoError
              /\ pc' \in { "validate_output_dir", "extract_date" } ]_vars

\* a call by keyword whose input file does not exist has reached the
\* engine, which could not read the file; no directory was created
C26_Witness ==
    /\ KeywordOnly /\ SourceMissing
    /\ pc = "failed" /\ error.type = IOFault
    /\ Len(log) = 1 /\ log[1].op = "readProduct"
    /\ ~Exists(fs, OutputDir)

(***************************************************************************)
(* C27: what the guards create                                             *)
(***************************************************************************)
\* C27: the only directory a run of a pipeline entry point has on the
\* filesystem is the output directory: the guards create a directory for
\* no other argument.
C27_OnlyOutputDirCreated ==
    call.kind \in { "intensity", "coherence" } =>
        \A p \in DOMAIN fs : fs[p] = "dir" => p = Bound(call, IF call.kind = "intensity" THEN 2 ELSE 3)

(***************************************************************************)
(* C28: output paths of scenes of one date                                 *)
(***************************************************************************)
\* engine call k is a write of path p that returned
WriteOf(k, p) ==
    log[k].op = "writeProduct" /\ log[k].raised = NoError /\ log[k].params.path = p

\* C28: the two paths an intensity run returns are the output directory
\* joined with the date of the scene and _vv.tif / _vh.tif; two runs over
\* different scenes of one date and one output directory that have both
\* returned have returned the same two paths, each path was written once by
\* either run, and the file is the one of the later write.
C28_SameDateSamePaths ==
    caller.program = "threads" =>
        /\ \A t \in { Running, parked } :
              t.pc = "done" =>
                  t.result = << PathJoin(t.call.args[2],
                                         extract_date(t.call.args[1]) \o VvTif),
                                PathJoin(t.call.args[2],
                                         extract_date(t.call.args[1]) \o VhTif) >>
        /\ ( /\ pc = "done" /\ parked.pc = "done"
             /\ call.args[1] # parked.call.args[1]
             /\ extract_date(call.args[1]) = extract_date(parked.call.args[1]) )
           =>
              /\ result = parked.result
              /\ \A n \in 1..2 :
                    /\ Exists(fs, result[n]) /\ fs[result[n]] = "file"
                    /\ \E i, j \in 1..Len(log) :
                          /\ i < j
                          /\ WriteOf(i, result[n]) /\ WriteOf(j, result[n])
                          /\ SceneOfCall(i) # SceneOfCall(j)
                          /\ LastWriter(result[n]) = SceneOfCall(j)
                          /\ \A k \in 1..Len(log) : WriteOf(k, result[n]) => k \in { i, j }
              /\ Cardinality({ p \in DOMAIN fs : EndsWith(p, SufTif) }) = 2

\* two runs over two scenes of one date have both returned
C28_Witness ==
    /\ caller.program = "threads"
    /\ pc = "done" /\ parked.pc = "done"
    /\ call.args[1] # parked.call.args[1]
    /\ result = parked.result

(***************************************************************************)
(* C29: the order of process-all                                           *)
(***************************************************************************)
\* the n-th pipeline call of process-all
ProcessAllCall(n) ==
    IF n = 1
    THEN MakeCall("intensity", << caller.args.first, caller.args.output_dir >>, 2)
    ELSE IF n = 2
    THEN MakeCall("intensity", << caller.args.second, caller.args.output_dir >>, 2)
    ELSE MakeCall("coherence",
                  << caller.args.first, caller.args.second, caller.args.output_dir >>, 3)

ProcessAll == caller.program = "main" /\ caller.args.command = "process-all"

\* C29: process-all makes at most three pipeline calls: the intensity run
\* of the pre-event file, the intensity run of the post-event file, the
\* coherence run of both, in this order; while a call is running every call
\* before it has returned a result, so the coherence run is not started
\* when an intensity run raised.
C29_ProcessAllInOrder ==
    ProcessAll =>
        /\ Len(caller.returned) <= 3
        /\ \A i \in 1..Len(caller.returned) : caller.returned[i].call = ProcessAllCall(i)
        /\ call # NoCall =>
              /\ Len(caller.returned) < 3
              /\ call = ProcessAllCall(Len(caller.returned) + 1)
              /\ \A i \in 1..Len(caller.returned) :
                    /\ caller.returned[i].error = "none"
                    /\ caller.returned[i].result # NoResult
        /\ \A i \in 1..Len(caller.returned) :
              caller.returned[i].error # "none" => i = Len(caller.returned)

\* the coherence run of process-all is running, both intensity runs having
\* returned
C29_Witness ==
    /\ ProcessAll
    /\ call.kind = "coherence" /\ log # << >>
    /\ Len(caller.returned) = 2

(***************************************************************************)
(* C30: process-all with a missing file                                    *)
(***************************************************************************)
\* main has got past its setup into the process-all branch
InProcessAll ==
    /\ ProcessAll
    /\ ~(caller.exited /\ caller.error = "OSError" /\ caller.returned = << >>)

PreMissing == ~Exists(fs, caller.args.first)

PostMissing == ~Exists(fs, caller.args.second)

\* no coherence run of process-all was started
NoCoherenceRun ==
    /\ call.kind # "coherence"
    /\ \A i \in 1..Len(caller.returned) : caller.returned[i].call.kind # "coherence"

\* the pre-event intensity run returned its two paths and the files exist
PreOutputsWritten ==
    /\ Len(caller.returned) >= 1
    /\ caller.returned[1].error = "none"
    /\ Len(caller.returned[1].result) = 2
    /\ \A k \in 1..2 : Exists(fs, caller.returned[1].result[k])

\* C30 as stated: when the pre-event or the post-event file does not exist,
\* process-all ends with exit code 0 and no exception, the coherence run is
\* never started, and when only the post-event file is missing the
\* pre-event outputs have been written.
C30_MissingFileExitsZero ==
    (InProcessAll /\ (PreMissing \/ PostMissing)) =>
        /\ NoCoherenceRun
        /\ caller.exited =>
              /\ caller.exit_code = 0 /\ caller.error = "none"
              /\ ~PreMissing => PreOutputsWritten

\* C30 amended: when the pre-event file does not exist, or the post-event
\* file does not exist and the pre-event intensity run returned,
\* process-all ends with exit code 0 and no exception and the coherence run
\* is never started; when only the post-event file is missing and the exit
\* code is 0 the pre-event outputs have been written, and the exit code is 1
\* exactly when the pre-event intensity run raised.
C30_MissingFileStops ==
    (InProcessAll /\ (PreMissing \/ PostMissing)) =>
        /\ NoCoherenceRun
        /\ Len(caller.returned) <= 1
        /\ PreMissing => caller.returned = << >>
        /\ caller.exited =>
              /\ caller.error = "none" =>
                    /\ caller.exit_code = 0
                    /\ ~PreMissing => PreOutputsWritten
              /\ caller.error # "none" =>
                    /\ ~PreMissing
                    /\ caller.exit_code = 1
                    /\ Len(caller.returned) = 1
                    /\ caller.returned[1].call = ProcessAllCall(1)
                    /\ caller.returned[1].error = caller.error

\* process-all has ended with code 0 at the missing post-event file, the
\* pre-event outputs written
C30_Witness ==
    /\ ProcessAll /\ ~PreMissing /\ PostMissing
    /\ caller.exited /\ caller.exit_code = 0
    /\ PreOutputsWritten

(***************************************************************************)
(* C31: extract_date and the directories of a path                         *)
(***************************************************************************)
\* the final component of path p: the characters after its last "/"
RECURSIVE FinalComponent(_)
FinalComponent(p) ==
    IF p = << >> THEN << >>
    ELSE IF p[Len(p)] = "/" THEN << >>
    ELSE Append(FinalComponent(SubSeq(p, 1, Len(p) - 1)), p[Len(p)])

\* C31: what extract_date returns for a path, or that it raises, is what
\* it returns or raises for every path with the same final component, the
\* final component alone among them: the directories of the path play no
\* part.
C31_FinalComponentOnly ==
    Extracted =>
        /\ extract_date(FinalComponent(call.args[1]))
               = (IF pc = "done" THEN result[1] ELSE None)
        /\ \A q \in PathIdentifiers :
              FinalComponent(q) = FinalComponent(call.args[1]) =>
                  extract_date(q) = (IF pc = "done" THEN result[1] ELSE None)
        /\ pc = "failed" => error.type = "ValueError"

\* extract_date raised for a path whose directory holds a date token and
\* whose final component holds none
C31_Witness ==
    /\ Extracted /\ pc = "failed"
    /\ call.args[1] = Tok_20240801T004052 \o << "_", "d", "/" >> \o NoDateZip

(***************************************************************************)
(* C32: the temporary file of the GDAL slope calculation                   *)
(***************************************************************************)
\* p names a temporary reprojected DEM: a file "temp_utm_....tif"
IsTempDem(p) ==
    /\ StartsWith(Basename(p), << "t","e","m","p","_","u","t","m","_" >>)
    /\ EndsWith(p, SufTif)

\* the GDAL slope calculation has returned or raised
SlopeEnded == call.kind = "slope_gdal" /\ Ended

\* a call to opname raised
Raised(opname) ==
    \E i \in 1..Len(log) : log[i].op = opname /\ log[i].raised # NoError

\* the paths the reprojection of this call was given to write
TempDemsOfCall ==
    { log[i].params[1] : i \in { k \in 1..Len(log) : log[k].op = "gdal.Warp" } }

\* C32: when the GDAL slope calculation has returned or raised, whatever
\* the reprojection and the slope computation did (written or not,
\* returned or raised), the temporary reprojected DEM file the call had
\* written is no longer on the filesystem.
C32_TempFileRemoved ==
    SlopeEnded =>
        \A p \in TempDemsOfCall :
            /\ IsTempDem(p)
            /\ ~(Exists(fs, p) /\ fs[p] = "file")

\* the reprojection wrote the temporary file and returned its dataset, the
\* slope computation raised, and the call has raised
C32_Witness ==
    /\ SlopeEnded /\ pc = "failed" /\ error.type = "RuntimeError"
    /\ \E i \in 1..Len(log) : log[i].op = "gdal.Warp" /\ log[i].out = 1
    /\ Raised("gdal.DEMProcessing")

=============================================================================
